---- MODULE Spec2Model ----
(***************************************************************************)
(* Order / entitlement lifecycle of the content-delivery bot.              *)
(*                                                                         *)
(* Money is kept in integer cents (the code keeps Float dollars rounded to *)
(* two decimals); int(amount * 10) is then cents \div 10 and               *)
(* int(price_monthly * 15) is (cents * 15) \div 100.                       *)
(*                                                                         *)
(* Everything runs on one asyncio event loop (uvicorn single process,      *)
(* AsyncIOScheduler, python-telegram-bot handlers): a handler is           *)
(* interleaved with the others only at its awaits, so each action below    *)
(* is the code between two awaits of one handler.                          *)
(***************************************************************************)
EXTENDS Integers, Sequences, FiniteSets, Bags, TLC

VARIABLES
    users,        \* users table: id -> row
    images,       \* images table: id -> row
    orders,       \* orders table: sequence of rows, id = position
    subs,         \* subscriptions table: sequence of rows, id = position
    redemptions,  \* loyalty_redemptions table: sequence of rows
    user_data,    \* context.user_data of each telegram user
    offered,      \* per user, the images whose loyalty_pick button was shown
    fallback,     \* per user, redeem_reward_callback runs awaiting the "no images" reply
    now,          \* datetime.utcnow(), in days
    nextRef,      \* next order id the payment provider hands out
    buying,       \* order ids whose buy_image_callback awaits paypal.create_order
    subscribing,  \* subscription ids whose subscribe_tier_callback awaits paypal.create_order
    handlers,     \* payment-confirmation requests in flight
    events,       \* number of payment-confirmation requests received so far
    credits,      \* history: per order, how often complete_order credited it
    debited,      \* history: per user, loyalty points debited by redemptions
    delivered,    \* history: per order, how often deliver_image sent it
    drips,        \* the drip_schedule table
    sales,        \* the flash_sales table
    dripJob,      \* the running process_drip_content job, if any
    saleJob,      \* the running check_flash_sales job, if any
    dripLog,      \* history: per drip, the sweeps that picked it and whom they tried
    saleLog,      \* history: per sale, the sweeps that picked it and whom they tried
    sweeps,       \* number of runs started, per job, and of sale runs that returned normally
    screen,       \* the last reply a handler sent
    quotes,       \* history: per order, what get_flash_price returned for it
    posts,        \* the scheduled_posts table
    posting,      \* calls of post_to_instagram in flight
    published,    \* history: what was published, and how the image was classified then
    upload,       \* context.user_data of the operator's upload conversation
    sale_data,    \* context.user_data of the operator's flash-sale conversation
    verifying,    \* webhook requests that await verify_webhook_signature
    verdicts      \* history: the webhook requests handled, with the outcome of the verification

\* the tables and handlers of the shop
shopVars == <<users, images, orders, subs, redemptions, user_data, offered, fallback,
              now, nextRef,
              buying, subscribing, handlers, events, credits, debited, delivered>>

\* the tables and jobs of the scheduled sweeps
sweepVars == <<drips, sales, dripJob, saleJob, dripLog, saleLog, sweeps>>

\* the replies, the public posts and the operator's upload conversation
deskVars == <<screen, quotes, posts, posting, published, upload, sale_data, verifying,
              verdicts>>

vars == <<shopVars, sweepVars, deskVars>>

(***************************************************************************)
(* Bounds of the model.                                                    *)
(***************************************************************************)
MaxOrders == 2      \* rows in the orders table
MaxSubs == 1        \* rows in the subscriptions table
MaxHandlers == 2    \* payment confirmations in flight at once
MaxEvents == 2      \* payment confirmations received in a run
MaxTicks == 2       \* advances of the clock
MaxSweeps == 2      \* runs of each scheduled job
MaxPosts == 2       \* rows in the scheduled_posts table
MaxImages == 3      \* rows in the images table
MaxSales == 2       \* rows in the flash_sales table

Users == {1}        \* users.id
Images == {1, 2}    \* images.id

(***************************************************************************)
(* Program constants.                                                      *)
(***************************************************************************)
NoRef == 0        \* a NULL / missing paypal order id
NoTime == -1      \* a NULL timestamp
SubDays == 30     \* timedelta(days=30)
TickDays == SubDays \div 2   \* the clock of the model advances in half periods
GoldSpend == 15000
SilverSpend == 7500
BronzeSpend == 2500

Min(S) == CHOOSE x \in S : \A y \in S : x <= y

\* tier_rank.get(tier, 0) / TIER_RANK.get(tier, 0)
TierRank(t) ==
    CASE t = "bronze" -> 1
      [] t = "silver" -> 2
      [] t = "gold"   -> 3
      [] OTHER        -> 0

\* SUB_TIERS[tier]["price"], in cents
SubPrice(t) ==
    CASE t = "bronze" -> 999
      [] t = "silver" -> 1999
      [] t = "gold"   -> 3999

SubTierKeys == {"bronze", "silver", "gold"}

\* REWARDS catalog: key -> [points, type, tier_limit]
REWARDS ==
    [r \in {"unlock_basic", "unlock_premium", "discount_10", "discount_25",
            "free_unlock_token"} |->
        CASE r = "unlock_basic"      -> [points |-> 500,  type |-> "image_unlock", tier_limit |-> "basic"]
          [] r = "unlock_premium"    -> [points |-> 1200, type |-> "image_unlock", tier_limit |-> "premium"]
          [] r = "discount_10"       -> [points |-> 300,  type |-> "discount_10",  tier_limit |-> "none"]
          [] r = "discount_25"       -> [points |-> 700,  type |-> "discount_25",  tier_limit |-> "none"]
          [] r = "free_unlock_token" -> [points |-> 400,  type |-> "free_unlock",  tier_limit |-> "none"]]

RewardKeys == DOMAIN REWARDS

(***************************************************************************)
(* Pricing.                                                                *)
(***************************************************************************)
\* round(x, 2) of a price given in hundredths of a cent
Round2(n) == (n + 50) \div 100

\* _get_user_discount: multiplier in percent
UserDiscount(tier) ==
    CASE tier = "bronze" -> 95
      [] tier = "silver" -> 90
      [] tier = "gold"   -> 80
      [] OTHER           -> 100

\* the rows of get_active_flash_sale's query: is_active, starts_at <= now, ends_at > now
ActiveFlashSales ==
    {k \in DOMAIN sales : /\ sales[k].is_active
                          /\ sales[k].starts_at <= now /\ sales[k].ends_at > now}

\* what .first() can return, 0 for None: the query has no ORDER BY, so any of
\* its rows
FirstFlashSale ==
    IF ActiveFlashSales = {} THEN {0} ELSE ActiveFlashSales

\* get_flash_price when get_active_flash_sale returned sale k: the tuple
\* (price, discount_percent, is_on_sale); category_id 0 stands for NULL
GetFlashPrice(k, i) ==
    IF k = 0 \/ (sales[k].category_id # 0 /\ sales[k].category_id # images[i].category_id)
    THEN [price |-> images[i].price, discount_percent |-> 0, on_sale |-> FALSE]
    ELSE [price |-> Round2(images[i].price * (100 - sales[k].discount_percent)),
          discount_percent |-> sales[k].discount_percent, on_sale |-> TRUE]

\* get_flash_price with no campaign in the store
FlashPrice(i) == GetFlashPrice(0, i).price

VipPrice_Floor(sale_price, tier) == (sale_price * UserDiscount(tier)) \div 100

\* round(sale_price * discount, 2)
VipPrice(sale_price, tier) == Round2(sale_price * UserDiscount(tier))

\* final_price = round(sale_price * discount, 2)
FinalPrice(u, i) == VipPrice(FlashPrice(i), users[u].vip_tier)

\* f"${price:.0f}": the whole dollars the preview prints, halves to even
ShownDollars(price) ==
    LET q == price \div 100
        r == price % 100
    IN  IF r > 50 \/ (r = 50 /\ q % 2 = 1) THEN q + 1 ELSE q

(***************************************************************************)
(* Initial state: freshly created accounts, an operator-made catalogue.    *)
(***************************************************************************)
NewUser == [vip_tier |-> "free", total_spent |-> 0, loyalty_points |-> 0,
            free_unlocks |-> 1, is_banned |-> FALSE]

\* the operator's uploads: image 1 at $30 (basic or vip tier), image 2 at $79.99 (premium)
Catalogue(tier1) ==
    [i \in Images |->
        IF i = 1
        THEN [tier |-> tier1,     price |-> 3000, total_sales |-> 0, is_active |-> TRUE,
              category_id |-> 1, content_type |-> "private", is_explicit |-> FALSE]
        ELSE [tier |-> "premium", price |-> 7999, total_sales |-> 0, is_active |-> TRUE,
              category_id |-> 2, content_type |-> "private", is_explicit |-> TRUE]]

\* no scheduled job is running and none has run
IdleJob == [pc |-> "idle"]

NoSweepYet ==
    /\ dripJob = IdleJob
    /\ saleJob = IdleJob
    /\ sweeps = [drip |-> 0, sale |-> 0, sale_done |-> 0]

\* a reply of a handler: what it says, to whom, about which image, at what price
Reply(kind, to, image, price) ==
    [kind |-> kind, to |-> to, image |-> image, price |-> price, at |-> now]

\* the operator is not in the upload conversation
NoUpload == [pc |-> "idle"]

\* the operator is not in the flash-sale conversation
NoSale == [pc |-> "idle"]

\* nothing was shown, nothing is scheduled or posted, no upload is under way
NoDesk ==
    /\ screen = [kind |-> "none", to |-> 0, image |-> 0, price |-> 0, at |-> 0]
    /\ quotes = <<>>
    /\ posts = <<>>
    /\ posting = {}
    /\ published = {}
    /\ upload = NoUpload
    /\ sale_data = NoSale
    /\ verifying = EmptyBag
    /\ verdicts = {}

\* no order, no subscription, no redemption, no campaign, no request in flight
EmptyShop ==
    /\ drips = <<>>
    /\ sales = <<>>
    /\ dripLog = <<>>
    /\ saleLog = <<>>
    /\ NoSweepYet
    /\ NoDesk
    /\ orders = <<>>
    /\ subs = <<>>
    /\ redemptions = <<>>
    /\ user_data = [u \in Users |-> [loyalty_discount |-> 0, loyalty_unlock_tier |-> "none"]]
    /\ offered = [u \in Users |-> {}]
    /\ fallback = [u \in Users |-> 0]
    /\ now = 0
    /\ nextRef = 1
    /\ buying = {}
    /\ subscribing = {}
    /\ handlers = EmptyBag
    /\ events = 0
    /\ credits = <<>>
    /\ debited = [u \in Users |-> 0]
    /\ delivered = <<>>

Init ==
    /\ drips = <<>>
    /\ sales = <<>>
    /\ dripLog = <<>>
    /\ saleLog = <<>>
    /\ NoSweepYet
    /\ NoDesk
    /\ users = [u \in Users |-> NewUser]
    /\ \E tier1 \in {"basic", "vip"} : images = Catalogue(tier1)
    /\ orders = <<>>
    /\ subs = <<>>
    /\ redemptions = <<>>
    /\ user_data = [u \in Users |-> [loyalty_discount |-> 0, loyalty_unlock_tier |-> "none"]]
    /\ offered = [u \in Users |-> {}]
    /\ fallback = [u \in Users |-> 0]
    /\ now = 0
    /\ nextRef = 1
    /\ buying = {}
    /\ subscribing = {}
    /\ handlers = EmptyBag
    /\ events = 0
    /\ credits = <<>>
    /\ debited = [u \in Users |-> 0]
    /\ delivered = <<>>

(***************************************************************************)
(* Queries.                                                                *)
(***************************************************************************)
OrderIds == 1..Len(orders)
SubIds == 1..Len(subs)

\* db.query(Order).filter(Order.paypal_order_id == ref).first(), 0 for None
FindOrder(ref) ==
    LET S == {k \in OrderIds : orders[k].paypal_order_id = ref}
    IN  IF S = {} THEN 0 ELSE Min(S)

\* db.query(Subscription).filter(Subscription.paypal_order_id == ref).first()
FindSub(ref) ==
    LET S == {k \in SubIds : subs[k].paypal_order_id = ref}
    IN  IF S = {} THEN 0 ELSE Min(S)

\* the "already owned" query: a completed order of this user for this image
Owned(u, i) ==
    \E k \in OrderIds :
        /\ orders[k].user_id = u
        /\ orders[k].image_id = i
        /\ orders[k].status = "completed"

\* Subscription.status == ACTIVE and Subscription.expires_at > utcnow()
ActiveUnexpired(s) == subs[s].status = "active" /\ subs[s].expires_at > now

\* _get_active_sub(db, user_id), 0 for None
GetActiveSub(u) ==
    LET S == {k \in SubIds : subs[k].user_id = u /\ ActiveUnexpired(k)}
    IN  IF S = {} THEN 0 ELSE Min(S)

\* the spend ladder shared by complete_order and the expiry sweep; else_tier is
\* what the caller leaves or sets when no threshold is met
SpendTier(spent, else_tier) ==
    IF spent >= GoldSpend THEN "gold"
    ELSE IF spent >= SilverSpend THEN "silver"
    ELSE IF spent >= BronzeSpend THEN "bronze"
    ELSE else_tier

(***************************************************************************)
(* buy_image_callback: purchase initiation.                                *)
(***************************************************************************)
\* up to "await paypal.create_order": the owned check, the price, the pending row
BuyImageCreate(u, i) ==
    /\ Len(orders) < MaxOrders
    /\ IF Owned(u, i)
       THEN UNCHANGED <<orders, buying, credits, delivered, quotes>>
       ELSE \E k \in FirstFlashSale :
            /\ orders' = Append(orders,
                    [user_id |-> u, image_id |-> i,
                     amount |-> VipPrice(GetFlashPrice(k, i).price, users[u].vip_tier),
                     paypal_order_id |-> NoRef, status |-> "pending"])
            /\ buying' = buying \cup {Len(orders) + 1}
            /\ credits' = Append(credits, 0)
            /\ delivered' = Append(delivered, 0)
            /\ quotes' = Append(quotes, GetFlashPrice(k, i))
    /\ UNCHANGED <<users, images, subs, redemptions, user_data, offered, fallback, now, nextRef,
                   subscribing, handlers, events, debited,
                   sweepVars, screen, posts, posting, published, upload, sale_data, verifying, verdicts>>

\* a telegram user without a users row, an image id without an images row
Strangers == {0}
MissingImages == {0}

BuyImageNotFound_CreatesOrder(u, i) ==
    /\ u \in Users /\ i \in MissingImages
    /\ Len(orders) < MaxOrders
    /\ orders' = Append(orders,
            [user_id |-> u, image_id |-> i, amount |-> 0,
             paypal_order_id |-> NoRef, status |-> "failed"])
    /\ credits' = Append(credits, 0)
    /\ delivered' = Append(delivered, 0)
    /\ quotes' = Append(quotes, [price |-> 0, discount_percent |-> 0, on_sale |-> FALSE])
    /\ screen' = Reply("image_not_found", u, i, 0)
    /\ UNCHANGED <<users, images, subs, redemptions, user_data, offered, fallback, now, nextRef,
                   buying, subscribing, handlers, events, debited,
                   sweepVars, posts, posting, published, upload, sale_data, verifying, verdicts>>

\* buy_image_callback for an image or a user the tables do not hold: the
\* reply "Image not found." or "Please /start the bot first.", and return
BuyImageNotFound(u, i) ==
    /\ u \notin DOMAIN users \/ i \notin DOMAIN images
    /\ screen' = Reply(IF i \notin DOMAIN images THEN "image_not_found" ELSE "start_first",
                       u, i, 0)
    /\ UNCHANGED <<shopVars, sweepVars, quotes, posts, posting, published, upload, sale_data, verifying, verdicts>>

(***************************************************************************)
(* image_detail_callback: the preview of an image with its price.          *)
(***************************************************************************)
\* the price the preview computes: the flash price, then the VIP discount
PreviewPrice(k, u, i) ==
    IF users[u].vip_tier \in {"bronze", "silver", "gold"}
    THEN VipPrice(GetFlashPrice(k, i).price, users[u].vip_tier)
    ELSE GetFlashPrice(k, i).price

\* the preview with the "Unlock for $..." button, or the image itself when owned
ImageDetail(u, i) ==
    /\ screen' \in IF Owned(u, i)
                 THEN {Reply("owned", u, i, 0)}
                 ELSE {Reply("preview", u, i, 100 * ShownDollars(PreviewPrice(k, u, i))) :
                           k \in FirstFlashSale}
    /\ UNCHANGED <<shopVars, sweepVars, quotes, posts, posting, published, upload, sale_data, verifying, verdicts>>

\* paypal.create_order returned: the provider's order id is stored
BuyImagePaypalOk(o) ==
    /\ o \in buying
    /\ orders' = [orders EXCEPT ![o].paypal_order_id = nextRef]
    /\ nextRef' = nextRef + 1
    /\ buying' = buying \ {o}
    /\ UNCHANGED <<users, images, subs, redemptions, user_data, offered, fallback, now,
                   subscribing, handlers, events, credits, debited, delivered,
                   sweepVars, deskVars>>

BuyImagePaypalError_StillPending(o) ==
    /\ o \in buying
    /\ buying' = buying \ {o}
    /\ UNCHANGED <<users, images, orders, subs, redemptions, user_data, offered, fallback, now,
                   nextRef, subscribing, handlers, events, credits, debited, delivered,
                   sweepVars, deskVars>>

\* paypal.create_order raised: the order is marked failed
BuyImagePaypalError(o) ==
    /\ o \in buying
    /\ orders' = [orders EXCEPT ![o].status = "failed"]
    /\ buying' = buying \ {o}
    /\ UNCHANGED <<users, images, subs, redemptions, user_data, offered, fallback, now, nextRef,
                   subscribing, handlers, events, credits, debited, delivered,
                   sweepVars, deskVars>>

(***************************************************************************)
(* complete_order.                                                         *)
(***************************************************************************)
AlreadyCompleted_NoGuard(o) == FALSE

\* if order.status == COMPLETED: return order.id
AlreadyCompleted(o) == orders[o].status = "completed"

\* the user row after "Update user stats" and "Auto-upgrade VIP tier"
CreditedUser(usr, amount) ==
    [usr EXCEPT !.total_spent = @ + amount,
                !.loyalty_points = @ + (amount \div 10),
                !.vip_tier = SpendTier(usr.total_spent + amount, @)]

CompleteOrderWrites_StatusNotSaved(o) ==
    /\ orders' = orders
    /\ images' = [images EXCEPT ![orders[o].image_id].total_sales = @ + 1]
    /\ users' = [users EXCEPT ![orders[o].user_id] = CreditedUser(@, orders[o].amount)]
    /\ credits' = [credits EXCEPT ![o] = @ + 1]

CompleteOrderWrites_PriceNow(o) ==
    /\ orders' = [orders EXCEPT ![o].status = "completed"]
    /\ images' = [images EXCEPT ![orders[o].image_id].total_sales = @ + 1]
    /\ users' = [users EXCEPT ![orders[o].user_id] =
                    CreditedUser(@, FinalPrice(orders[o].user_id, orders[o].image_id))]
    /\ credits' = [credits EXCEPT ![o] = @ + 1]

\* the writes of complete_order for a not yet completed order, one commit
CompleteOrderWrites(o) ==
    /\ orders' = [orders EXCEPT ![o].status = "completed"]
    /\ images' = [images EXCEPT ![orders[o].image_id].total_sales = @ + 1]
    /\ users' = [users EXCEPT ![orders[o].user_id] = CreditedUser(@, orders[o].amount)]
    /\ credits' = [credits EXCEPT ![o] = @ + 1]

(***************************************************************************)
(* activate_subscription.                                                  *)
(***************************************************************************)
TierAfterActivation_Overwrite(current, sub_tier) == sub_tier

\* if new_rank >= current_rank: user.vip_tier = sub.tier
TierAfterActivation(current, sub_tier) ==
    IF TierRank(sub_tier) >= TierRank(current) THEN sub_tier ELSE current

ActivatedUser(usr, s) ==
    [usr EXCEPT !.vip_tier = TierAfterActivation(@, subs[s].tier),
                !.total_spent = @ + subs[s].price_monthly,
                !.loyalty_points = @ + ((subs[s].price_monthly * 15) \div 100)]

\* activate_subscription(ref) for a subscription s found by its reference
ActivateSubscriptionWrites(s) ==
    IF subs[s].status = "active"
    THEN UNCHANGED <<subs, users>>
    ELSE /\ subs' = [subs EXCEPT ![s].status = "active",
                                 ![s].expires_at = now + SubDays,
                                 ![s].activations = @ + 1]
         /\ users' = [users EXCEPT ![subs[s].user_id] = ActivatedUser(@, s)]

(***************************************************************************)
(* Payment confirmations: /paypal/webhook and /paypal/return.              *)
(***************************************************************************)
EventKinds == {"approved", "capture_completed", "return"}

\* the references an incoming request can carry: none, one the provider issued,
\* or one that matches no row
UnknownRef == MaxOrders + MaxSubs + 1
EventRefs == (0..(nextRef - 1)) \cup {UnknownRef}

Handler(pc, ref, order_id) == [pc |-> pc, ref |-> ref, order_id |-> order_id]

One(h) == SetToBag({h})

HasRef_NoGuard(ref) == TRUE

\* "if paypal_order_id:" / "if token:"
HasRef(ref) == ref # NoRef

\* a request arrives; CHECKOUT.ORDER.APPROVED and /paypal/return first await
\* paypal_capture, PAYMENT.CAPTURE.COMPLETED goes straight to the dispatch
ReceiveConfirmation(kind, ref) ==
    /\ events < MaxEvents
    /\ BagCardinality(handlers) < MaxHandlers
    /\ events' = events + 1
    /\ IF HasRef(ref)
       THEN handlers' = handlers (+)
                One(Handler(IF kind = "capture_completed" THEN "process" ELSE "capture",
                            ref, 0))
       ELSE handlers' = handlers
    /\ UNCHANGED <<users, images, orders, subs, redemptions, user_data, offered, fallback, now, nextRef,
                   buying, subscribing, credits, debited, delivered,
                   sweepVars, deskVars>>

\* /paypal/webhook with PAYPAL_WEBHOOK_ID set, up to the await of
\* verify_webhook_signature
WebhookArrives(kind, ref) ==
    /\ events < MaxEvents
    /\ BagCardinality(handlers) + BagCardinality(verifying) < MaxHandlers
    /\ events' = events + 1
    /\ verifying' = verifying (+) One([kind |-> kind, ref |-> ref])
    /\ UNCHANGED <<users, images, orders, subs, redemptions, user_data, offered, fallback, now,
                   nextRef, buying, subscribing, handlers, credits, debited, delivered,
                   sweepVars, screen, quotes, posts, posting, published, upload, sale_data,
                   verdicts>>

\* what verify_webhook_signature does: it returns True, returns False, or raises
VerifyOutcomes == {"valid", "invalid", "raised"}

\* verify_webhook_signature is over: "if not valid: return Response(400)";
\* "except Exception: ... Continue processing"
VerifyReturns(v, outcome) ==
    /\ BagIn(v, verifying)
    /\ verifying' = verifying (-) One(v)
    /\ verdicts' = verdicts \cup {[ref |-> v.ref, outcome |-> outcome]}
    /\ IF outcome # "invalid" /\ HasRef(v.ref)
       THEN handlers' = handlers (+)
                One(Handler(IF v.kind = "capture_completed" THEN "process" ELSE "capture",
                            v.ref, 0))
       ELSE handlers' = handlers
    /\ UNCHANGED <<users, images, orders, subs, redemptions, user_data, offered, fallback, now,
                   nextRef, buying, subscribing, events, credits, debited, delivered,
                   sweepVars, screen, quotes, posts, posting, published, upload, sale_data>>

\* paypal_capture returned status COMPLETED
CaptureCompleted(h) ==
    /\ BagIn(h, handlers)
    /\ h.pc = "capture"
    /\ handlers' = (handlers (-) One(h)) (+) One(Handler("process", h.ref, 0))
    /\ UNCHANGED <<users, images, orders, subs, redemptions, user_data, offered, fallback, now, nextRef,
                   buying, subscribing, events, credits, debited, delivered,
                   sweepVars, deskVars>>

\* paypal_capture returned another status: nothing is processed
CaptureNotCompleted(h) ==
    /\ BagIn(h, handlers)
    /\ h.pc = "capture"
    /\ handlers' = handlers (-) One(h)
    /\ UNCHANGED <<users, images, orders, subs, redemptions, user_data, offered, fallback, now, nextRef,
                   buying, subscribing, events, credits, debited, delivered,
                   sweepVars, deskVars>>

\* _process_completed_payment, first branch: complete_order(ref) found an order
ProcessOrderPayment(h) ==
    /\ BagIn(h, handlers)
    /\ h.pc = "process"
    /\ FindOrder(h.ref) # 0
    /\ LET o == FindOrder(h.ref) IN
        /\ IF AlreadyCompleted(o)
           THEN UNCHANGED <<orders, images, users, credits>>
           ELSE CompleteOrderWrites(o)
        /\ handlers' = (handlers (-) One(h)) (+) One(Handler("deliver", h.ref, o))
    /\ UNCHANGED <<subs, redemptions, user_data, offered, fallback, now, nextRef, buying, subscribing,
                   events, debited, delivered,
                   sweepVars, deskVars>>

\* _process_completed_payment, second branch: complete_order returned 0 (no such
\* order), then activate_subscription(ref)
ProcessSubscriptionPayment(h) ==
    /\ BagIn(h, handlers)
    /\ h.pc = "process"
    /\ FindOrder(h.ref) = 0
    /\ LET s == FindSub(h.ref) IN
        /\ IF s # 0
           THEN ActivateSubscriptionWrites(s)
           ELSE UNCHANGED <<subs, users>>
    /\ handlers' = handlers (-) One(h)
    /\ UNCHANGED <<images, orders, redemptions, user_data, offered, fallback, now, nextRef, buying,
                   subscribing, events, credits, debited, delivered,
                   sweepVars, deskVars>>

ProcessPaymentDbError_PartialWrite(h) ==
    /\ BagIn(h, handlers)
    /\ h.pc = "process"
    /\ FindOrder(h.ref) # 0
    /\ ~AlreadyCompleted(FindOrder(h.ref))
    /\ orders' = [orders EXCEPT ![FindOrder(h.ref)].status = "completed"]
    /\ handlers' = (handlers (-) One(h)) (+) One(Handler("failed", h.ref, FindOrder(h.ref)))
    /\ UNCHANGED <<users, images, subs, redemptions, user_data, offered, fallback, now, nextRef,
                   buying, subscribing, events, credits, debited, delivered,
                   sweepVars, deskVars>>

\* complete_order raised (database error): rollback, 0 is returned, nothing is
\* written, no later branch finds the reference, and the request is about to
\* be answered
ProcessPaymentDbError(h) ==
    /\ BagIn(h, handlers)
    /\ h.pc = "process"
    /\ FindOrder(h.ref) # 0
    /\ handlers' = (handlers (-) One(h)) (+) One(Handler("failed", h.ref, FindOrder(h.ref)))
    /\ UNCHANGED <<users, images, orders, subs, redemptions, user_data, offered, fallback, now, nextRef,
                   buying, subscribing, events, credits, debited, delivered,
                   sweepVars, deskVars>>

\* paypal_capture raised: the except block logs the error and the request is
\* about to be answered
CaptureRaised(h) ==
    /\ BagIn(h, handlers)
    /\ h.pc = "capture"
    /\ handlers' = (handlers (-) One(h)) (+) One(Handler("failed", h.ref, 0))
    /\ UNCHANGED <<users, images, orders, subs, redemptions, user_data, offered, fallback, now, nextRef,
                   buying, subscribing, events, credits, debited, delivered,
                   sweepVars, deskVars>>

\* the status code of the answer to a request: Response(status_code=200) on
\* every path of paypal_webhook past the signature check, and the HTML page of
\* paypal_return
ResponseStatus(h) == 200

\* the sender delivers an event again when the answer is not a 2xx
Redelivers(status) == status \div 100 # 2

\* the answer to a request whose handling failed
AnswerFailed(h) ==
    /\ BagIn(h, handlers)
    /\ h.pc = "failed"
    /\ handlers' = IF Redelivers(ResponseStatus(h))
                   THEN (handlers (-) One(h)) (+) One(Handler("capture", h.ref, 0))
                   ELSE handlers (-) One(h)
    /\ UNCHANGED <<users, images, orders, subs, redemptions, user_data, offered, fallback, now, nextRef,
                   buying, subscribing, events, credits, debited, delivered,
                   sweepVars, deskVars>>

\* deliver_image(order_id) after the await: the order is re-read and sent
DeliverImage(h) ==
    /\ BagIn(h, handlers)
    /\ h.pc = "deliver"
    /\ handlers' = handlers (-) One(h)
    /\ IF orders[h.order_id].status = "completed"
       THEN delivered' = [delivered EXCEPT ![h.order_id] = @ + 1]
       ELSE delivered' = delivered
    /\ UNCHANGED <<users, images, orders, subs, redemptions, user_data, offered, fallback, now, nextRef,
                   buying, subscribing, events, credits, debited,
                   sweepVars, deskVars>>

(***************************************************************************)
(* free_unlock_callback.                                                   *)
(***************************************************************************)
FreeUnlockAllowed_TierOnly(u, i) == images[i].tier \in {"free", "basic"}

\* if user.free_unlocks <= 0: reject; if image.tier not in ("free", "basic"): reject
FreeUnlockAllowed(u, i) ==
    /\ users[u].free_unlocks > 0
    /\ images[i].tier \in {"free", "basic"}

CompletedFreeOrder_Pending(u, i) ==
    [user_id |-> u, image_id |-> i, amount |-> 0,
     paypal_order_id |-> NoRef, status |-> "pending"]

\* Order(amount=0.0, status=COMPLETED) of a free unlock or a loyalty pick
CompletedFreeOrder(u, i) ==
    [user_id |-> u, image_id |-> i, amount |-> 0,
     paypal_order_id |-> NoRef, status |-> "completed"]

FreeUnlock(u, i) ==
    /\ IF FreeUnlockAllowed(u, i)
       THEN /\ Len(orders) < MaxOrders
            /\ orders' = Append(orders, CompletedFreeOrder(u, i))
            /\ users' = [users EXCEPT ![u].free_unlocks = @ - 1]
            /\ images' = [images EXCEPT ![i].total_sales = @ + 1]
            /\ credits' = Append(credits, 0)
            /\ delivered' = Append(delivered, 0)
       ELSE UNCHANGED <<orders, users, images, credits, delivered>>
    /\ UNCHANGED <<subs, redemptions, user_data, offered, fallback, now, nextRef,
                   buying, subscribing, handlers, events, debited,
                   sweepVars, deskVars>>

(***************************************************************************)
(* redeem_reward_callback and loyalty_pick_image_callback.                 *)
(***************************************************************************)
CanAfford_NoCheck(u, r) == TRUE

CanAfford_Strict(u, r) == users[u].loyalty_points > REWARDS[r].points

\* if user.loyalty_points < reward["points"]: reject
CanAfford(u, r) == users[u].loyalty_points >= REWARDS[r].points

\* tier_filter of the image_unlock branch
TierFilter(tier_limit) ==
    IF tier_limit = "premium" THEN {"basic", "premium"} ELSE {tier_limit}

\* the images listed for picking (at most 10, all of them in a small catalogue)
EligibleImages(tier_limit) ==
    {i \in Images : images[i].is_active /\ images[i].tier \in TierFilter(tier_limit)}

RedemptionRow(u, r) ==
    [user_id |-> u, points_spent |-> REWARDS[r].points, reward_type |-> REWARDS[r].type]

\* the user row after the branch of the reward type
RedeemedUser(usr, r) ==
    IF REWARDS[r].type = "free_unlock"
    THEN [usr EXCEPT !.loyalty_points = @ - REWARDS[r].points,
                     !.free_unlocks = @ + 1]
    ELSE [usr EXCEPT !.loyalty_points = @ - REWARDS[r].points]

\* context.user_data after the branch of the reward type
RedeemedUserData(ud, r) ==
    CASE REWARDS[r].type = "discount_10"  -> [ud EXCEPT !.loyalty_discount = 10]
      [] REWARDS[r].type = "discount_25"  -> [ud EXCEPT !.loyalty_discount = 25]
      [] REWARDS[r].type = "image_unlock" -> [ud EXCEPT !.loyalty_unlock_tier = REWARDS[r].tier_limit]
      [] OTHER -> ud

RedeemReward(u, r) ==
    /\ IF CanAfford(u, r)
       THEN /\ users' = [users EXCEPT ![u] = RedeemedUser(@, r)]
            /\ user_data' = [user_data EXCEPT ![u] = RedeemedUserData(@, r)]
            /\ redemptions' = Append(redemptions, RedemptionRow(u, r))
            /\ debited' = [debited EXCEPT ![u] =
                    @ + (users[u].loyalty_points - RedeemedUser(users[u], r).loyalty_points)]
            /\ IF REWARDS[r].type = "image_unlock"
               THEN IF EligibleImages(REWARDS[r].tier_limit) = {}
                    THEN /\ fallback' = [fallback EXCEPT ![u] = @ + 1]
                         /\ offered' = offered
                    ELSE /\ offered' = [offered EXCEPT ![u] = @ \cup EligibleImages(REWARDS[r].tier_limit)]
                         /\ fallback' = fallback
               ELSE UNCHANGED <<offered, fallback>>
       ELSE UNCHANGED <<users, user_data, redemptions, debited, offered, fallback>>
    /\ UNCHANGED <<images, orders, subs, now, nextRef, buying, subscribing, handlers,
                   events, credits, delivered,
                   sweepVars, deskVars>>

\* image_unlock with no eligible image, after the reply was sent:
\* user.free_unlocks += 1 in a commit of its own
RedeemFallbackGrant(u) ==
    /\ fallback[u] > 0
    /\ fallback' = [fallback EXCEPT ![u] = @ - 1]
    /\ users' = [users EXCEPT ![u].free_unlocks = @ + 1]
    /\ UNCHANGED <<images, orders, subs, redemptions, user_data, offered, now, nextRef,
                   buying, subscribing, handlers, events, credits, debited, delivered,
                   sweepVars, deskVars>>

\* the reply raised: the handler ends before the fallback grant
RedeemFallbackLost(u) ==
    /\ fallback[u] > 0
    /\ fallback' = [fallback EXCEPT ![u] = @ - 1]
    /\ UNCHANGED <<users, images, orders, subs, redemptions, user_data, offered, now,
                   nextRef, buying, subscribing, handlers, events, credits, debited,
                   delivered,
                   sweepVars, deskVars>>

\* loyalty_pick_image_callback, reachable through a button shown by a redemption
LoyaltyPickImage(u, i) ==
    /\ i \in offered[u]
    /\ IF Owned(u, i)
       THEN UNCHANGED <<orders, images, credits, delivered>>
       ELSE /\ Len(orders) < MaxOrders
            /\ orders' = Append(orders, CompletedFreeOrder(u, i))
            /\ images' = [images EXCEPT ![i].total_sales = @ + 1]
            /\ credits' = Append(credits, 0)
            /\ delivered' = Append(delivered, 0)
    /\ UNCHANGED <<users, subs, redemptions, user_data, offered, fallback, now, nextRef,
                   buying, subscribing, handlers, events, debited,
                   sweepVars, deskVars>>

(***************************************************************************)
(* subscribe_tier_callback and cancel_subscription_callback.               *)
(***************************************************************************)
SubscribeCreate(u, t) ==
    /\ Len(subs) < MaxSubs
    /\ subs' = Append(subs,
            [user_id |-> u, tier |-> t, price_monthly |-> SubPrice(t),
             status |-> "pending", paypal_order_id |-> NoRef,
             expires_at |-> NoTime, activations |-> 0])
    /\ subscribing' = subscribing \cup {Len(subs) + 1}
    /\ UNCHANGED <<users, images, orders, redemptions, user_data, offered, fallback, now,
                   nextRef, buying, handlers, events, credits, debited, delivered,
                   sweepVars, deskVars>>

SubscribePaypalOk(s) ==
    /\ s \in subscribing
    /\ subs' = [subs EXCEPT ![s].paypal_order_id = nextRef]
    /\ nextRef' = nextRef + 1
    /\ subscribing' = subscribing \ {s}
    /\ UNCHANGED <<users, images, orders, redemptions, user_data, offered, fallback, now,
                   buying, handlers, events, credits, debited, delivered,
                   sweepVars, deskVars>>

SubscribePaypalError(s) ==
    /\ s \in subscribing
    /\ subs' = [subs EXCEPT ![s].status = "expired"]
    /\ subscribing' = subscribing \ {s}
    /\ UNCHANGED <<users, images, orders, redemptions, user_data, offered, fallback, now,
                   nextRef, buying, handlers, events, credits, debited, delivered,
                   sweepVars, deskVars>>

CancelSubscription(u) ==
    /\ GetActiveSub(u) # 0
    /\ subs' = [subs EXCEPT ![GetActiveSub(u)].status = "cancelled"]
    /\ UNCHANGED <<users, images, orders, redemptions, user_data, offered, fallback, now,
                   nextRef, buying, subscribing, handlers, events, credits, debited,
                   delivered,
                   sweepVars, deskVars>>

(***************************************************************************)
(* Time and check_expiring_subscriptions.                                  *)
(***************************************************************************)
Tick ==
    /\ now + TickDays <= MaxTicks * TickDays
    /\ now' = now + TickDays
    /\ UNCHANGED <<users, images, orders, subs, redemptions, user_data, offered,
                   fallback, nextRef, buying, subscribing, handlers, events, credits,
                   debited, delivered,
                   sweepVars, deskVars>>

\* Subscription.status == ACTIVE and Subscription.expires_at <= now
Overdue(s) == subs[s].status = "active" /\ subs[s].expires_at <= now

OtherActive_Never(s) == FALSE

\* other_active: another ACTIVE subscription of the user with expires_at > now
OtherActive(s) ==
    \E k \in SubIds : k # s /\ subs[k].user_id = subs[s].user_id /\ ActiveUnexpired(k)

\* "Revert to spending-based tier"
SweptUser(usr) == [usr EXCEPT !.vip_tier = SpendTier(usr.total_spent, "free")]

CheckExpiringSubscriptions ==
    /\ \E s \in SubIds : Overdue(s)
    /\ subs' = [s \in SubIds |->
                    IF Overdue(s) THEN [subs[s] EXCEPT !.status = "expired"] ELSE subs[s]]
    /\ users' = [u \in DOMAIN users |->
                    IF \E s \in SubIds : Overdue(s) /\ subs[s].user_id = u /\ ~OtherActive(s)
                    THEN SweptUser(users[u]) ELSE users[u]]
    /\ UNCHANGED <<images, orders, redemptions, user_data, offered, fallback, now,
                   nextRef, buying, subscribing, handlers, events, credits, debited,
                   delivered,
                   sweepVars, deskVars>>

(***************************************************************************)
(* process_drip_content: the drip sweep.  The scheduler runs one instance  *)
(* of a job at a time; a run is suspended at each send.                    *)
(***************************************************************************)
DripIds == 1..Len(drips)

\* db.query(User).filter(User.is_banned == False).all()
NotBanned == {u \in DOMAIN users : ~users[u].is_banned}

\* DripSchedule.sent == False and DripSchedule.send_at <= now
DueDrips == {d \in DripIds : ~drips[d].sent /\ drips[d].send_at <= now}

UserMeetsTier_Everyone(tier, u, required_tier) == TRUE

\* _user_meets_tier, with the tier the user row was loaded with
UserMeetsTier(tier, u, required_tier) ==
    \/ TierRank(tier) >= TierRank(required_tier)
    \/ /\ GetActiveSub(u) # 0
       /\ TierRank(subs[GetActiveSub(u)].tier) >= TierRank(required_tier)

\* one more attempt to send drip d to account u
Tried(log, d, u) ==
    [log EXCEPT ![d].tried = @ \cup {u}, ![d].attempts = @ + 1]

RECURSIVE DripNext(_, _, _)
RECURSIVE DripScan(_, _, _, _, _, _)
\* the user loop of one drip, from the user after the last send: skip the
\* users who do not meet the tier and stop at the next send, or finish the
\* drip (drip.sent = True; db.commit()) and go on with the next drip
DripScan(dr, due, todo, snap, cnt, log) ==
    LET d == Min(due)
        E == {u \in todo : UserMeetsTier(snap[u], u, dr[d].tier_required)}
    IN  IF E # {}
        THEN [drips |-> dr,
              job |-> [pc |-> "sending", due |-> due, cur |-> Min(E), snap |-> snap,
                       todo |-> {v \in todo : v > Min(E)}, sent_count |-> cnt],
              log |-> Tried([log EXCEPT ![d].skipped = @ \cup {v \in todo : v < Min(E)}],
                            d, Min(E))]
        ELSE DripNext([dr EXCEPT ![d].sent = TRUE], due \ {d},
                      [log EXCEPT ![d].skipped = @ \cup todo, ![d].reported = cnt])

\* "for drip in due_drips": the image lookup and the users query of the drip
DripNext(dr, due, log) ==
    IF due = {}
    THEN [drips |-> dr, job |-> IdleJob, log |-> log]
    ELSE LET d == Min(due) IN
         IF dr[d].image_id \notin Images
         THEN DripNext([dr EXCEPT ![d].sent = TRUE], due \ {d}, log)
         ELSE DripScan(dr, due, NotBanned, [u \in NotBanned |-> users[u].vip_tier], 0,
                       [log EXCEPT ![d].runs = @ + 1])

\* the scheduler starts process_drip_content
DripSweepStart ==
    /\ dripJob.pc = "idle"
    /\ sweeps.drip < MaxSweeps
    /\ sweeps' = [sweeps EXCEPT !.drip = @ + 1]
    /\ LET r == DripNext(drips, DueDrips, dripLog) IN
        /\ drips' = r.drips
        /\ dripJob' = r.job
        /\ dripLog' = r.log
    /\ UNCHANGED <<shopVars, deskVars, sales, saleJob, saleLog>>

\* bot.send_photo returned: the account of the current send has the drip once more
Got(log) == [log EXCEPT ![Min(dripJob.due)].got = @ (+) One(dripJob.cur)]

\* bot.send_photo returned: sent_count += 1
DripSendOk ==
    /\ dripJob.pc = "sending"
    /\ LET r == DripScan(drips, dripJob.due, dripJob.todo, dripJob.snap,
                         dripJob.sent_count + 1, Got(dripLog)) IN
        /\ drips' = r.drips
        /\ dripJob' = r.job
        /\ dripLog' = r.log
    /\ UNCHANGED <<shopVars, deskVars, sales, saleJob, saleLog, sweeps>>

\* bot.send_photo raised: the failure is logged and the loop goes on
DripSendFails ==
    /\ dripJob.pc = "sending"
    /\ LET r == DripScan(drips, dripJob.due, dripJob.todo, dripJob.snap,
                         dripJob.sent_count, dripLog) IN
        /\ drips' = r.drips
        /\ dripJob' = r.job
        /\ dripLog' = r.log
    /\ UNCHANGED <<shopVars, deskVars, sales, saleJob, saleLog, sweeps>>

\* the send returned and the database call that follows it raised, the
\* subscription query of _user_meets_tier for the next user or the commit of
\* drip.sent: the except around the whole loop logs it and the run ends
DripSweepDbError ==
    /\ dripJob.pc = "sending"
    /\ dripJob.todo # {} =>
           TierRank(dripJob.snap[Min(dripJob.todo)]) <
               TierRank(drips[Min(dripJob.due)].tier_required)
    /\ dripJob' = IdleJob
    /\ dripLog' = Got(dripLog)
    /\ UNCHANGED <<shopVars, deskVars, drips, sales, saleJob, saleLog, sweeps>>

(***************************************************************************)
(* check_flash_sales: the promotion sweep.                                 *)
(***************************************************************************)
SaleIds == 1..Len(sales)

\* is_active, not announced, starts_at <= now, ends_at > now
DueSales ==
    {k \in SaleIds : /\ sales[k].is_active /\ ~sales[k].announcement_sent
                     /\ sales[k].starts_at <= now /\ sales[k].ends_at > now}

Deactivated_Strict(sl, t) ==
    [k \in DOMAIN sl |->
        IF sl[k].is_active /\ sl[k].ends_at < t
        THEN [sl[k] EXCEPT !.is_active = FALSE] ELSE sl[k]]

\* "Auto-deactivate expired flash sales", with the time t read when the run began
Deactivated(sl, t) ==
    [k \in DOMAIN sl |->
        IF sl[k].is_active /\ sl[k].ends_at <= t
        THEN [sl[k] EXCEPT !.is_active = FALSE] ELSE sl[k]]

RECURSIVE SaleNext(_, _, _, _)
\* "for sale in sales": the users query of the sale and its first send; after
\* the last sale, the deactivation of the sales that have ended
SaleNext(sl, due, log, t) ==
    IF due = {}
    THEN [sales |-> Deactivated(sl, t), job |-> IdleJob, log |-> log]
    ELSE LET k == Min(due) IN
         IF NotBanned = {}
         THEN SaleNext([sl EXCEPT ![k].announcement_sent = TRUE], due \ {k},
                       [log EXCEPT ![k].runs = @ + 1], t)
         ELSE [sales |-> sl,
               job |-> [pc |-> "sending", due |-> due, cur |-> Min(NotBanned),
                        todo |-> NotBanned \ {Min(NotBanned)}, now |-> t],
               log |-> Tried([log EXCEPT ![k].runs = @ + 1], k, Min(NotBanned))]

\* the scheduler starts check_flash_sales
SaleSweepStart ==
    /\ saleJob.pc = "idle"
    /\ sweeps.sale < MaxSweeps
    /\ LET r == SaleNext(sales, DueSales, saleLog, now) IN
        /\ sales' = r.sales
        /\ saleJob' = r.job
        /\ saleLog' = r.log
        /\ sweeps' = [sweeps EXCEPT !.sale = @ + 1,
                                    !.sale_done = IF r.job = IdleJob THEN @ + 1 ELSE @]
    /\ UNCHANGED <<shopVars, deskVars, drips, dripJob, dripLog>>

\* bot.send_message returned or raised ("except Exception: pass"): the next
\* user, or sale.announcement_sent = True; db.commit() and the next sale
SaleSendReturns ==
    /\ saleJob.pc = "sending"
    /\ LET k == Min(saleJob.due)
           r == IF saleJob.todo # {}
                THEN [sales |-> sales,
                      job |-> [saleJob EXCEPT !.cur = Min(saleJob.todo),
                                              !.todo = @ \ {Min(saleJob.todo)}],
                      log |-> Tried(saleLog, k, Min(saleJob.todo))]
                ELSE SaleNext([sales EXCEPT ![k].announcement_sent = TRUE],
                              saleJob.due \ {k}, saleLog, saleJob.now)
       IN
        /\ sales' = r.sales
        /\ saleJob' = r.job
        /\ saleLog' = r.log
        /\ sweeps' = [sweeps EXCEPT !.sale_done = IF r.job = IdleJob THEN @ + 1 ELSE @]
    /\ UNCHANGED <<shopVars, deskVars, drips, dripJob, dripLog>>

\* the last send of a sale returned and the commit of announcement_sent
\* raised: the except around the whole body logs it and the run ends
SaleSweepDbError ==
    /\ saleJob.pc = "sending"
    /\ saleJob.todo = {}
    /\ saleJob' = IdleJob
    /\ UNCHANGED <<shopVars, deskVars, drips, sales, dripJob, dripLog, saleLog, sweeps>>

\* the announcements are committed and the query or the commit of the
\* deactivation raised: the run ends and no sale is deactivated
SaleDeactivateDbError ==
    \/ /\ saleJob.pc = "idle"
       /\ sweeps.sale < MaxSweeps
       /\ DueSales = {}
       /\ sweeps' = [sweeps EXCEPT !.sale = @ + 1]
       /\ UNCHANGED <<shopVars, deskVars, drips, sales, dripJob, saleJob, dripLog, saleLog>>
    \/ /\ saleJob.pc = "sending"
       /\ saleJob.todo = {}
       /\ saleJob.due = {Min(saleJob.due)}
       /\ sales' = [sales EXCEPT ![Min(saleJob.due)].announcement_sent = TRUE]
       /\ saleJob' = IdleJob
       /\ UNCHANGED <<shopVars, deskVars, drips, dripJob, dripLog, saleLog, sweeps>>

(***************************************************************************)
(* A store in operation: accounts with a purchase history, a drip schedule *)
(* and promotional campaigns entered by the operator.                      *)
(***************************************************************************)
\* account 1 is new; 2 has spent $200 (gold); 3 has spent $30 (bronze);
\* 4 has spent $200 and was banned by the operator
SweepAccounts ==
    <<NewUser,
      [NewUser EXCEPT !.vip_tier = "gold", !.total_spent = 20000, !.loyalty_points = 2000],
      [NewUser EXCEPT !.vip_tier = "bronze", !.total_spent = 3000, !.loyalty_points = 300],
      [NewUser EXCEPT !.vip_tier = "gold", !.total_spent = 20000, !.loyalty_points = 2000,
                      !.is_banned = TRUE]>>

\* DripSchedule rows: image 1 for silver and above, due at once; image 2 for
\* everyone, due after one tick
DripSchedule ==
    <<[image_id |-> 1, tier_required |-> "silver", send_at |-> 0, sent |-> FALSE],
      [image_id |-> 2, tier_required |-> "free", send_at |-> TickDays, sent |-> FALSE]>>

\* FlashSale rows: both have started; the first ends after one tick
FlashSales ==
    <<[starts_at |-> 0, ends_at |-> TickDays, is_active |-> TRUE,
       announcement_sent |-> FALSE, discount_percent |-> 50, category_id |-> 0],
      [starts_at |-> 0, ends_at |-> 2 * TickDays, is_active |-> TRUE,
       announcement_sent |-> FALSE, discount_percent |-> 30, category_id |-> 1]>>

\* no sweep has touched the row
NoLog ==
    [runs |-> 0, attempts |-> 0, tried |-> {}, skipped |-> {}, reported |-> -1, got |-> EmptyBag]

\* an account that reached tier t by its purchases
Shopper(t) ==
    [NewUser EXCEPT !.vip_tier = t,
                    !.total_spent = CASE t = "gold" -> 16000 [] t = "silver" -> 8000
                                      [] t = "bronze" -> 3000 [] OTHER -> 0,
                    !.loyalty_points = CASE t = "gold" -> 1600 [] t = "silver" -> 800
                                         [] t = "bronze" -> 300 [] OTHER -> 0]

\* image 1 at $20.00 in category 1, image 2 at $19.88 in category 2 (no price
\* of the model makes a product an exact half cent, where round() depends on
\* the binary representation)
PriceList ==
    [i \in Images |->
        [tier |-> "basic", price |-> IF i = 1 THEN 2000 ELSE 1988, total_sales |-> 0,
         is_active |-> TRUE, category_id |-> i, content_type |-> "private",
         is_explicit |-> FALSE]]

\* the scopes of a campaign: NULL (all categories) or a category
Scopes == {0, 1, 2}

\* two campaigns: 50% off from day 0 to day 30, 30% off from day 15 to day 45
Campaigns(a1, c1, a2, c2) ==
    <<[starts_at |-> 0, ends_at |-> 2 * TickDays, is_active |-> a1,
       announcement_sent |-> TRUE, discount_percent |-> 50, category_id |-> c1],
      [starts_at |-> TickDays, ends_at |-> 3 * TickDays, is_active |-> a2,
       announcement_sent |-> TRUE, discount_percent |-> 30, category_id |-> c2]>>

InitPrices ==
    /\ \E t \in {"free", "bronze", "silver", "gold"} : users = [u \in Users |-> Shopper(t)]
    /\ images = PriceList
    /\ \E a1, a2 \in BOOLEAN, c1, c2 \in Scopes : sales = Campaigns(a1, c1, a2, c2)
    /\ saleLog = [k \in {1, 2} |-> NoLog]
    /\ drips = <<>>
    /\ dripLog = <<>>
    /\ NoSweepYet
    /\ NoDesk
    /\ orders = <<>>
    /\ subs = <<>>
    /\ redemptions = <<>>
    /\ user_data = [u \in Users |-> [loyalty_discount |-> 0, loyalty_unlock_tier |-> "none"]]
    /\ offered = [u \in Users |-> {}]
    /\ fallback = [u \in Users |-> 0]
    /\ now = 0
    /\ nextRef = 1
    /\ buying = {}
    /\ subscribing = {}
    /\ handlers = EmptyBag
    /\ events = 0
    /\ credits = <<>>
    /\ debited = [u \in Users |-> 0]
    /\ delivered = <<>>

\* image 1 in the Instagram folder with any is_active and is_explicit, image 2
\* in the private folder
Folders(a1, e1) ==
    [i \in Images |->
        [Catalogue("basic")[i] EXCEPT
            !.content_type = IF i = 1 THEN "instagram" ELSE "private",
            !.is_active = IF i = 1 THEN a1 ELSE TRUE,
            !.is_explicit = IF i = 1 THEN e1 ELSE FALSE]]

InitPosts ==
    /\ users = [u \in Users |-> NewUser]
    /\ \E a1, e1 \in BOOLEAN : images = Folders(a1, e1)
    /\ sales = <<>>
    /\ saleLog = <<>>
    /\ drips = <<>>
    /\ dripLog = <<>>
    /\ NoSweepYet
    /\ NoDesk
    /\ orders = <<>>
    /\ subs = <<>>
    /\ redemptions = <<>>
    /\ user_data = [u \in Users |-> [loyalty_discount |-> 0, loyalty_unlock_tier |-> "none"]]
    /\ offered = [u \in Users |-> {}]
    /\ fallback = [u \in Users |-> 0]
    /\ now = 0
    /\ nextRef = 1
    /\ buying = {}
    /\ subscribing = {}
    /\ handlers = EmptyBag
    /\ events = 0
    /\ credits = <<>>
    /\ debited = [u \in Users |-> 0]
    /\ delivered = <<>>

\* accounts with activated subscriptions: 1 paid one bronze month, 2 paid two
\* gold months, 3 had spent $30 and paid one silver month, 4 has none
Subscribers ==
    <<[NewUser EXCEPT !.vip_tier = "bronze", !.total_spent = 999, !.loyalty_points = 149],
      [NewUser EXCEPT !.vip_tier = "gold", !.total_spent = 7998, !.loyalty_points = 1198],
      [NewUser EXCEPT !.vip_tier = "silver", !.total_spent = 4999, !.loyalty_points = 599],
      NewUser>>

\* an activated subscription row
ActiveSub(u, t, ref, exp) ==
    [user_id |-> u, tier |-> t, price_monthly |-> SubPrice(t), status |-> "active",
     paypal_order_id |-> ref, expires_at |-> exp, activations |-> 1]

\* the ends of the running periods
Expiries == {TickDays, 2 * TickDays}

InitExpiry ==
    /\ users = Subscribers
    /\ \E e1, e2, e3, e4 \in Expiries :
            subs = <<ActiveSub(1, "bronze", 1, e1), ActiveSub(2, "gold", 2, e2),
                     ActiveSub(2, "gold", 3, e3), ActiveSub(3, "silver", 4, e4)>>
    /\ nextRef = 5
    /\ drips = <<>>
    /\ sales = <<>>
    /\ dripLog = <<>>
    /\ saleLog = <<>>
    /\ NoSweepYet
    /\ NoDesk
    /\ images = Catalogue("basic")
    /\ orders = <<>>
    /\ redemptions = <<>>
    /\ user_data = [u \in Users |-> [loyalty_discount |-> 0, loyalty_unlock_tier |-> "none"]]
    /\ offered = [u \in Users |-> {}]
    /\ fallback = [u \in Users |-> 0]
    /\ now = 0
    /\ buying = {}
    /\ subscribing = {}
    /\ handlers = EmptyBag
    /\ events = 0
    /\ credits = <<>>
    /\ debited = [u \in Users |-> 0]
    /\ delivered = <<>>

InitSweeps ==
    /\ users = SweepAccounts
    /\ drips = DripSchedule
    /\ sales = FlashSales
    /\ dripLog = [d \in DOMAIN DripSchedule |-> NoLog]
    /\ saleLog = [k \in DOMAIN FlashSales |-> NoLog]
    /\ NoSweepYet
    /\ NoDesk
    /\ images = Catalogue("basic")
    /\ orders = <<>>
    /\ subs = <<>>
    /\ redemptions = <<>>
    /\ user_data = [u \in Users |-> [loyalty_discount |-> 0, loyalty_unlock_tier |-> "none"]]
    /\ offered = [u \in Users |-> {}]
    /\ fallback = [u \in Users |-> 0]
    /\ now = 0
    /\ nextRef = 1
    /\ buying = {}
    /\ subscribing = {}
    /\ handlers = EmptyBag
    /\ events = 0
    /\ credits = <<>>
    /\ debited = [u \in Users |-> 0]
    /\ delivered = <<>>

(***************************************************************************)
(* The system.                                                             *)
(***************************************************************************)
HandlerStates ==
    {Handler(pc, r, o) : pc \in {"capture", "process", "deliver", "failed"},
                         r \in EventRefs, o \in 0..Len(orders)}

(***************************************************************************)
(* Public posting: services/instagram.py, the operator's "post to          *)
(* Instagram" conversation and the dashboard's schedule.  A posting        *)
(* operation reads the image, runs the guard and sends the image to        *)
(* Instagram without yielding in between; that point is the time of        *)
(* posting.  It then awaits Instagram's answers.                           *)
(***************************************************************************)
PostIds == 1..Len(posts)

SafeForInstagram_Always(i) == TRUE

\* _assert_safe_for_instagram passes
SafeForInstagram(i) == images[i].content_type = "instagram"

\* a call of post_to_instagram that passed the guard and awaits Instagram;
\* todo holds the due posts the sweep has not reached yet
Posting(path, p, i, todo) ==
    [path |-> path, post |-> p, image |-> i, content_type |-> images[i].content_type,
     todo |-> todo]

\* ScheduledPost(image_id, scheduled_at), status "pending" by default
NewPost(i, at) == [image_id |-> i, scheduled_at |-> at, status |-> "pending", error |-> "none"]

\* post.status = "failed" after InstagramSafetyError, for the posts of B
Refused(B) ==
    [p \in PostIds |-> IF p \in B THEN [posts[p] EXCEPT !.status = "failed", !.error = "safety"]
                                  ELSE posts[p]]

\* post.status after Instagram answered
Answered(p, ok) ==
    [posts EXCEPT ![p].status = IF ok THEN "posted" ELSE "failed",
                  ![p].error = IF ok THEN "none" ELSE "api"]

\* what Instagram shows after a successful media_publish
Published(op) == [image |-> op.image, content_type |-> op.content_type]

\* the images table is edited: an image of the Instagram folder moves to the
\* private folder
Reclassify(i) ==
    /\ images[i].content_type = "instagram"
    /\ images' = [images EXCEPT ![i].content_type = "private"]
    /\ UNCHANGED <<users, orders, subs, redemptions, user_data, offered,
                   fallback, now, nextRef, buying, subscribing, handlers, events, credits,
                   debited, delivered, sweepVars, deskVars>>

\* the answer to a request for an image that is not Instagram-safe
Refusal(kind, i) == [kind |-> kind, to |-> 0, image |-> i, price |-> 0, at |-> 0]

\* dashboard schedule_submit: a post is stored for an Instagram-safe image
\* only, HTTP 400 otherwise
ScheduleSubmit(i, at) ==
    /\ IF SafeForInstagram(i)
       THEN /\ Len(posts) < MaxPosts
            /\ posts' = Append(posts, NewPost(i, at))
            /\ UNCHANGED screen
       ELSE /\ screen' = Refusal("not_instagram_safe", i)
            /\ UNCHANGED posts
    /\ UNCHANGED <<shopVars, sweepVars, quotes, posting, published, upload, sale_data, verifying, verdicts>>

\* ig_caption_received -> post_image_by_id -> post_to_instagram
AdminPost(i) ==
    /\ \A op \in posting : op.path # "admin"
    /\ IF SafeForInstagram(i)
       THEN /\ posting' = posting \cup {Posting("admin", 0, i, {})}
            /\ UNCHANGED screen
       ELSE /\ screen' = Refusal("blocked", i)
            /\ UNCHANGED posting
    /\ UNCHANGED <<shopVars, sweepVars, quotes, posts, published, upload, sale_data, verifying, verdicts>>

\* post_image_by_id returned to ig_caption_received
AdminPostReturns(op, ok) ==
    /\ op \in posting /\ op.path = "admin"
    /\ posting' = posting \ {op}
    /\ published' = IF ok THEN published \cup {Published(op)} ELSE published
    /\ UNCHANGED <<shopVars, sweepVars, screen, quotes, posts, upload, sale_data, verifying, verdicts>>

\* dashboard post_now up to the await of post_to_instagram
PostNow(p) ==
    /\ p \in PostIds /\ posts[p].status = "pending"
    /\ \A op \in posting : op.path # "now"
    /\ IF SafeForInstagram(posts[p].image_id)
       THEN /\ posting' = posting \cup {Posting("now", p, posts[p].image_id, {})}
            /\ UNCHANGED posts
       ELSE /\ posts' = Refused({p})
            /\ UNCHANGED posting
    /\ UNCHANGED <<shopVars, sweepVars, screen, quotes, published, upload, sale_data, verifying, verdicts>>

\* post_to_instagram returned to post_now
PostNowReturns(op, ok) ==
    /\ op \in posting /\ op.path = "now"
    /\ posting' = posting \ {op}
    /\ posts' = Answered(op.post, ok)
    /\ published' = IF ok THEN published \cup {Published(op)} ELSE published
    /\ UNCHANGED <<shopVars, sweepVars, screen, quotes, upload, sale_data, verifying, verdicts>>

\* the loop of process_scheduled_posts over the posts of todo up to its next
\* await: the query has no ORDER BY, so any Instagram-safe post of todo may
\* be the first one sent, after any of the refused ones
SweepLoop(todo, before) ==
    LET safe == {p \in todo : SafeForInstagram(posts[p].image_id)}
    IN  IF safe = {}
        THEN /\ posts' = [p \in PostIds |-> IF p \in todo THEN Refused(todo)[p] ELSE before[p]]
             /\ posting' = {op \in posting : op.path # "sweep"}
        ELSE \E p \in safe, B \in SUBSET (todo \ safe) :
                /\ posts' = [q \in PostIds |-> IF q \in B THEN Refused(B)[q] ELSE before[q]]
                /\ posting' = {op \in posting : op.path # "sweep"}
                                \cup {Posting("sweep", p, posts[p].image_id, todo \ (B \cup {p}))}

\* the pending posts whose time has come
DuePosts == {p \in PostIds : posts[p].status = "pending" /\ posts[p].scheduled_at <= now}

\* process_scheduled_posts, every minute, one instance at a time
ProcessScheduledPosts ==
    /\ \A op \in posting : op.path # "sweep"
    /\ DuePosts # {}
    /\ SweepLoop(DuePosts, posts)
    /\ UNCHANGED <<shopVars, sweepVars, screen, quotes, published, upload, sale_data, verifying, verdicts>>

\* post_to_instagram returned to process_scheduled_posts, which goes on
SweepPostReturns(op, ok) ==
    /\ op \in posting /\ op.path = "sweep"
    /\ published' = IF ok THEN published \cup {Published(op)} ELSE published
    /\ SweepLoop(op.todo, Answered(op.post, ok))
    /\ UNCHANGED <<shopVars, sweepVars, screen, quotes, upload, sale_data, verifying, verdicts>>

(***************************************************************************)
(* The operator's upload conversation (upload_img_conv): after category,   *)
(* content type, title and description it asks for the price, then for the *)
(* tier, then for the file.                                                *)
(***************************************************************************)
\* what the operator may type as a price
PriceTexts == {"20.00", "$5", "-5.00", "free"}

\* float(text.strip().replace("$", "")): the number in cents, or ValueError
\* for text that is no number
Float(text) ==
    CASE text = "20.00" -> [raised |-> "none", value |-> 2000]
      [] text = "$5"    -> [raised |-> "none", value |-> 500]
      [] text = "-5.00" -> [raised |-> "none", value |-> 0 - 500]
      [] OTHER          -> [raised |-> "ValueError", value |-> 0]

\* upload_image_start .. upload_image_description: "Enter the price in USD"
UploadAskPrice ==
    /\ upload = NoUpload
    /\ Cardinality(DOMAIN images) < MaxImages
    /\ upload' = [pc |-> "price"]
    /\ UNCHANGED <<shopVars, sweepVars, screen, quotes, posts, posting, published,
                   sale_data, verifying, verdicts>>

\* upload_image_price: only text that float() refuses is rejected
UploadImagePrice(text) ==
    /\ upload.pc = "price"
    /\ IF Float(text).raised = "ValueError"
       THEN /\ screen' = Refusal("invalid_price", 0)
            /\ UNCHANGED upload
       ELSE /\ upload' = [pc |-> "tier", img_price |-> Float(text).value]
            /\ UNCHANGED screen
    /\ UNCHANGED <<shopVars, sweepVars, quotes, posts, posting, published,
                   sale_data, verifying, verdicts>>

\* upload_image_tier
UploadImageTier(tier) ==
    /\ upload.pc = "tier"
    /\ upload' = [pc |-> "file", img_price |-> upload.img_price, img_tier |-> tier]
    /\ UNCHANGED <<shopVars, sweepVars, screen, quotes, posts, posting, published,
                   sale_data, verifying, verdicts>>

\* the id the images table gives to its next row
NextImageId == Cardinality(DOMAIN images) + 1

\* upload_image_file: the row is stored with the price of the conversation
UploadImageFile ==
    /\ upload.pc = "file"
    /\ images' = [i \in DOMAIN images \cup {NextImageId} |->
                    IF i \in DOMAIN images
                    THEN images[i]
                    ELSE [tier |-> upload.img_tier, price |-> upload.img_price,
                          total_sales |-> 0, is_active |-> TRUE, category_id |-> 1,
                          content_type |-> "private", is_explicit |-> FALSE]]
    /\ upload' = NoUpload
    /\ UNCHANGED <<users, orders, subs, redemptions, user_data, offered,
                   fallback, now, nextRef, buying, subscribing, handlers, events, credits,
                   debited, delivered, sweepVars, screen, quotes, posts, posting, published,
                   sale_data, verifying, verdicts>>

(***************************************************************************)
(* The operator's flash-sale conversation (flash_sale_conv): title,        *)
(* discount, duration, category; the last handler stores the row.          *)
(***************************************************************************)
\* what the operator may type as a discount and as a duration
DiscountTexts == {"30", "90%", "1", "0", "91", "-5", "30.5", "half"}
HourTexts == {"1", "24", "168", "0", "169", "-24", "soon"}

\* int(text): the number, or ValueError for text that is no integer
ParseInt(text) ==
    CASE text = "30"  -> [raised |-> "none", value |-> 30]
      [] text = "90"  -> [raised |-> "none", value |-> 90]
      [] text = "1"   -> [raised |-> "none", value |-> 1]
      [] text = "0"   -> [raised |-> "none", value |-> 0]
      [] text = "91"  -> [raised |-> "none", value |-> 91]
      [] text = "-5"  -> [raised |-> "none", value |-> 0 - 5]
      [] text = "24"  -> [raised |-> "none", value |-> 24]
      [] text = "168" -> [raised |-> "none", value |-> 168]
      [] text = "169" -> [raised |-> "none", value |-> 169]
      [] text = "-24" -> [raised |-> "none", value |-> 0 - 24]
      [] OTHER        -> [raised |-> "ValueError", value |-> 0]

\* text.replace("%", "")
StripPercent(text) == IF text = "90%" THEN "90" ELSE text

DiscountInRange_Any(n) == TRUE

\* "if discount < 1 or discount > 90: raise ValueError", negated
DiscountInRange(n) == n >= 1 /\ n <= 90

\* "if hours < 1 or hours > 168: raise ValueError", negated
HoursInRange(n) == n >= 1 /\ n <= 168

\* the clock of the model counts days: the days a duration in hours touches
DaysOf(hours) == (hours + 23) \div 24

\* flash_sale_start and flash_sale_title: "Enter the discount percentage"
FlashSaleTitle ==
    /\ sale_data.pc = "idle"
    /\ Len(sales) < MaxSales
    /\ sale_data' = [pc |-> "discount"]
    /\ UNCHANGED <<shopVars, sweepVars, screen, quotes, posts, posting, published, upload,
                   verifying, verdicts>>

\* flash_sale_discount
FlashSaleDiscount(text) ==
    /\ sale_data.pc = "discount"
    /\ LET n == ParseInt(StripPercent(text)) IN
        IF n.raised = "ValueError" \/ ~DiscountInRange(n.value)
        THEN /\ screen' = Refusal("discount_1_to_90", 0)
             /\ UNCHANGED sale_data
        ELSE /\ sale_data' = [pc |-> "duration", sale_discount |-> n.value]
             /\ UNCHANGED screen
    /\ UNCHANGED <<shopVars, sweepVars, quotes, posts, posting, published, upload,
                   verifying, verdicts>>

\* flash_sale_duration
FlashSaleDuration(text) ==
    /\ sale_data.pc = "duration"
    /\ LET n == ParseInt(text) IN
        IF n.raised = "ValueError" \/ ~HoursInRange(n.value)
        THEN /\ screen' = Refusal("hours_1_to_168", 0)
             /\ UNCHANGED sale_data
        ELSE /\ sale_data' = [pc |-> "category", sale_discount |-> sale_data.sale_discount,
                              sale_hours |-> n.value]
             /\ UNCHANGED screen
    /\ UNCHANGED <<shopVars, sweepVars, quotes, posts, posting, published, upload,
                   verifying, verdicts>>

\* flash_sale_category: the row is stored, active, from now on
FlashSaleCategory(cat) ==
    /\ sale_data.pc = "category"
    /\ sales' = Append(sales,
            [starts_at |-> now, ends_at |-> now + DaysOf(sale_data.sale_hours),
             is_active |-> TRUE, announcement_sent |-> FALSE,
             discount_percent |-> sale_data.sale_discount, category_id |-> cat])
    /\ saleLog' = Append(saleLog, NoLog)
    /\ sale_data' = NoSale
    /\ UNCHANGED <<shopVars, drips, dripJob, saleJob, dripLog, sweeps,
                   screen, quotes, posts, posting, published, upload, verifying, verdicts>>

\* the preview of an image
BrowseStep == \E u \in Users, i \in Images : ImageDetail(u, i)

\* purchase initiation for a user or an image that does not exist
LookupStep ==
    \E u \in Users \cup Strangers, i \in Images \cup MissingImages : BuyImageNotFound(u, i)

\* public posting
PostStep ==
    \/ \E i \in Images, at \in {0, TickDays} : ScheduleSubmit(i, at)
    \/ \E i \in Images : AdminPost(i)
    \/ \E op \in posting, ok \in BOOLEAN : AdminPostReturns(op, ok)
    \/ \E p \in PostIds : PostNow(p)
    \/ \E op \in posting, ok \in BOOLEAN : PostNowReturns(op, ok)
    \/ ProcessScheduledPosts
    \/ \E op \in posting, ok \in BOOLEAN : SweepPostReturns(op, ok)
    \/ \E i \in Images : Reclassify(i)

\* the operator's upload conversation
UploadStep ==
    \/ UploadAskPrice
    \/ \E text \in PriceTexts : UploadImagePrice(text)
    \/ \E tier \in {"basic", "premium"} : UploadImageTier(tier)
    \/ UploadImageFile

\* the operator's flash-sale conversation
CampaignStep ==
    \/ FlashSaleTitle
    \/ \E text \in DiscountTexts : FlashSaleDiscount(text)
    \/ \E text \in HourTexts : FlashSaleDuration(text)
    \/ \E cat \in Scopes : FlashSaleCategory(cat)

\* the webhook with signature verification configured
WebhookStep ==
    \/ \E k \in {"approved", "capture_completed"}, r \in EventRefs : WebhookArrives(k, r)
    \/ \E v \in BagToSet(verifying), outcome \in VerifyOutcomes : VerifyReturns(v, outcome)

\* purchase initiation
PurchaseStep ==
    \/ \E u \in Users, i \in DOMAIN images : BuyImageCreate(u, i)
    \/ \E o \in buying : BuyImagePaypalOk(o)
    \/ \E o \in buying : BuyImagePaypalError(o)

\* payment confirmation
ConfirmStep ==
    \/ \E k \in EventKinds, r \in EventRefs : ReceiveConfirmation(k, r)
    \/ \E h \in HandlerStates : CaptureCompleted(h)
    \/ \E h \in HandlerStates : CaptureNotCompleted(h)
    \/ \E h \in HandlerStates : ProcessOrderPayment(h)
    \/ \E h \in HandlerStates : ProcessSubscriptionPayment(h)
    \/ \E h \in HandlerStates : ProcessPaymentDbError(h)
    \/ \E h \in HandlerStates : CaptureRaised(h)
    \/ \E h \in HandlerStates : AnswerFailed(h)
    \/ \E h \in HandlerStates : DeliverImage(h)

\* unlocks without payment
UnlockStep ==
    \/ \E u \in Users, i \in Images : FreeUnlock(u, i)
    \/ \E u \in Users, i \in Images : LoyaltyPickImage(u, i)

\* the loyalty ledger
RedeemStep ==
    \/ \E u \in Users, r \in RewardKeys : RedeemReward(u, r)
    \/ \E u \in Users : RedeemFallbackGrant(u)
    \/ \E u \in Users : RedeemFallbackLost(u)

\* subscriptions
SubscriptionStep ==
    \/ \E u \in Users, t \in SubTierKeys : SubscribeCreate(u, t)
    \/ \E s \in subscribing : SubscribePaypalOk(s)
    \/ \E s \in subscribing : SubscribePaypalError(s)
    \/ \E u \in Users : CancelSubscription(u)

\* the clock and the subscription-expiry sweep
ExpiryStep ==
    \/ Tick
    \/ CheckExpiringSubscriptions

\* purchases, subscriptions and confirmations, with references to rows that
\* do not exist
NextAbsent ==
    \/ PurchaseStep
    \/ LookupStep
    \/ \E r \in EventRefs : ReceiveConfirmation("capture_completed", r)
    \/ \E h \in HandlerStates : ProcessOrderPayment(h)
    \/ \E h \in HandlerStates : ProcessSubscriptionPayment(h)
    \/ \E h \in HandlerStates : DeliverImage(h)
    \/ \E u \in Users, t \in SubTierKeys : SubscribeCreate(u, t)
    \/ \E sb \in subscribing : SubscribePaypalOk(sb)
SpecAbsent == Init /\ [][NextAbsent]_vars

\* previews and purchases while campaigns run
NextPrices ==
    \/ BrowseStep
    \/ PurchaseStep
    \/ Tick
SpecPrices == InitPrices /\ [][NextPrices]_vars

\* the expiry sweep in a store whose accounts hold subscriptions
NextExpiry ==
    \/ ExpiryStep
    \/ \E u \in DOMAIN users : CancelSubscription(u)
SpecExpiry == InitExpiry /\ [][NextExpiry]_vars

\* the drip sweep
DripStep ==
    \/ DripSweepStart
    \/ DripSendOk
    \/ DripSendFails
    \/ DripSweepDbError

\* the promotion sweep
SaleStep ==
    \/ SaleSweepStart
    \/ SaleSendReturns
    \/ SaleSweepDbError
    \/ SaleDeactivateDbError

Next ==
    \/ PurchaseStep
    \/ BrowseStep
    \/ LookupStep
    \/ ConfirmStep
    \/ UnlockStep
    \/ RedeemStep
    \/ SubscriptionStep
    \/ ExpiryStep
    \/ DripStep
    \/ SaleStep
    \/ PostStep
    \/ UploadStep
    \/ CampaignStep
    \/ WebhookStep

Spec == Init /\ [][Next]_vars

\* purchases and subscriptions confirmed through the verified webhook only
NextWebhook ==
    \/ PurchaseStep
    \/ \E u \in Users, t \in SubTierKeys : SubscribeCreate(u, t)
    \/ \E sb \in subscribing : SubscribePaypalOk(sb)
    \/ WebhookStep
    \/ \E h \in HandlerStates : CaptureCompleted(h)
    \/ \E h \in HandlerStates : ProcessOrderPayment(h)
    \/ \E h \in HandlerStates : ProcessSubscriptionPayment(h)
    \/ \E h \in HandlerStates : DeliverImage(h)
SpecWebhook == Init /\ [][NextWebhook]_vars

\* redemptions and loyalty picks of an account that has 1,600 points
InitPicks ==
    /\ users = [u \in Users |-> Shopper("gold")]
    /\ \E tier1 \in {"basic", "vip"} : images = Catalogue(tier1)
    /\ EmptyShop

NextPicks == RedeemStep \/ (\E u \in Users, i \in Images : LoyaltyPickImage(u, i))
SpecPicks == InitPicks /\ [][NextPicks]_vars

\* a new account in front of a catalogue whose basic image may be explicit
Gallery(e1) == [Catalogue("basic") EXCEPT ![1].is_explicit = e1]

InitGallery ==
    /\ users = [u \in Users |-> NewUser]
    /\ \E e1 \in BOOLEAN : images = Gallery(e1)
    /\ EmptyShop

NextGallery ==
    \/ BrowseStep
    \/ PurchaseStep
    \/ \E u \in Users, i \in Images : FreeUnlock(u, i)
SpecGallery == InitGallery /\ [][NextGallery]_vars

\* the creation of campaigns while the clock advances
NextCampaigns == CampaignStep \/ Tick
SpecCampaigns == Init /\ [][NextCampaigns]_vars

\* uploads and purchases
NextUpload == UploadStep \/ PurchaseStep
SpecUpload == Init /\ [][NextUpload]_vars

\* the schedule, the three ways of posting and the clock
NextPosts == PostStep \/ Tick
SpecPosts == InitPosts /\ [][NextPosts]_vars

NextOrders == PurchaseStep \/ ConfirmStep \/ UnlockStep \/ RedeemStep
SpecOrders == Init /\ [][NextOrders]_vars

\* purchases, their confirmations and free unlocks
NextBuy == PurchaseStep \/ ConfirmStep \/ (\E u \in Users, i \in Images : FreeUnlock(u, i))
SpecBuy == Init /\ [][NextBuy]_vars

NextTiers == PurchaseStep \/ ConfirmStep \/ SubscriptionStep \/ ExpiryStep
SpecTiers == Init /\ [][NextTiers]_vars

NextLoyalty == PurchaseStep \/ ConfirmStep \/ UnlockStep \/ RedeemStep \/ SubscriptionStep
SpecLoyalty == Init /\ [][NextLoyalty]_vars

\* the drip sweep in a store where account 1 takes a subscription
NextDrips ==
    \/ DripStep
    \/ Tick
    \/ \E u \in Users, t \in SubTierKeys : SubscribeCreate(u, t)
    \/ \E sb \in subscribing : SubscribePaypalOk(sb)
    \/ \E r \in EventRefs : ReceiveConfirmation("capture_completed", r)
    \/ \E h \in HandlerStates : ProcessSubscriptionPayment(h)
SpecDrips == InitSweeps /\ [][NextDrips]_vars

\* the promotion sweep
NextSales == SaleStep \/ Tick
SpecSales == InitSweeps /\ [][NextSales]_vars

(***************************************************************************)
(* Helpers of the properties.                                              *)
(***************************************************************************)
RECURSIVE SumOver(_, _)
\* the sum of f[x] over the finite set S
SumOver(f, S) ==
    IF S = {} THEN 0
    ELSE LET x == CHOOSE y \in S : TRUE IN f[x] + SumOver(f, S \ {x})

CompletedOrders(u) ==
    {o \in OrderIds : orders[o].user_id = u /\ orders[o].status = "completed"}

CompletedFor(u, i) == {o \in CompletedOrders(u) : orders[o].image_id = i}

\* this step is a return of complete_order(h.ref) with value o to handler h
CompleteOrderReturned(h, o) ==
    /\ BagIn(h, handlers)
    /\ h.pc = "process"
    /\ handlers' = (handlers (-) One(h)) (+) One(Handler("deliver", h.ref, o))

(***************************************************************************)
(* C1: complete_order called again for an already fulfilled order changes  *)
(* no row and returns the id the first call returned; the first call       *)
(* credits the sale counter, the spend and the points exactly once.        *)
(***************************************************************************)
C1_CallStep ==
    \A h \in BagToSet(handlers), o \in 0..Len(orders) :
        CompleteOrderReturned(h, o) =>
            /\ o = FindOrder(h.ref)
            /\ o # 0
            /\ FindOrder(h.ref)' = o
            /\ IF orders[o].status = "completed"
               THEN UNCHANGED <<orders, users, images, subs, redemptions>>
               ELSE /\ orders'[o].status = "completed"
                    /\ images'[orders[o].image_id].total_sales
                         = images[orders[o].image_id].total_sales + 1
                    /\ users'[orders[o].user_id].total_spent
                         = users[orders[o].user_id].total_spent + orders[o].amount
                    /\ users'[orders[o].user_id].loyalty_points
                         = users[orders[o].user_id].loyalty_points + (orders[o].amount \div 10)

C1_CreditedOnce == \A o \in OrderIds : credits[o] <= 1

C1_FulfilmentIdempotent == []C1_CreditedOnce /\ [][C1_CallStep]_vars

\* a second call has returned for an order whose first call was already delivered
C1_Witness ==
    \E h \in BagToSet(handlers) :
        /\ h.pc = "deliver"
        /\ delivered[h.order_id] >= 1
        /\ credits[h.order_id] = 1

(***************************************************************************)
(* C2: however the confirmation requests for one reference interleave, an  *)
(* order is credited at most once: spend, points and sale counters equal   *)
(* what the completed orders account for.                                  *)
(***************************************************************************)
AmountOf == [o \in OrderIds |-> orders[o].amount]
PointsOf == [o \in OrderIds |-> orders[o].amount \div 10]

C2_CreditedExactlyOnce ==
    /\ \A o \in OrderIds :
        /\ credits[o] <= 1
        /\ credits[o] = 1 => orders[o].status = "completed"
    /\ \A u \in Users :
        /\ users[u].total_spent = SumOver(AmountOf, CompletedOrders(u))
        /\ users[u].loyalty_points + debited[u] = SumOver(PointsOf, CompletedOrders(u))
    /\ \A i \in Images :
        images[i].total_sales = Cardinality({o \in OrderIds :
            orders[o].image_id = i /\ orders[o].status = "completed"})

\* two requests for the same reference were in flight together and both have
\* passed complete_order
C2_Witness ==
    \E h \in BagToSet(handlers) :
        /\ h.pc = "deliver"
        /\ CopiesIn(h, handlers) = 2
        /\ credits[h.order_id] = 1

(***************************************************************************)
(* C3: an order's status only moves forward; completed, failed and         *)
(* refunded are final, and rows are never removed.                         *)
(***************************************************************************)
Forward(old, new) ==
    CASE old = "pending"  -> new \in {"pending", "approved", "completed", "failed", "refunded"}
      [] old = "approved" -> new \in {"approved", "completed", "failed", "refunded"}
      [] OTHER            -> new = old

C3_Step ==
    /\ Len(orders') >= Len(orders)
    /\ \A o \in OrderIds : Forward(orders[o].status, orders'[o].status)

C3_StatusMovesForward == [][C3_Step]_vars

\* a failed order exists next to an order fulfilled by a confirmation, with
\* every confirmation of the run received
C3_Witness ==
    /\ \E o \in OrderIds : orders[o].status = "failed"
    /\ \E o \in OrderIds : credits[o] = 1
    /\ events = MaxEvents

(***************************************************************************)
(* C4: at most one completed order per (account, item), and the item's     *)
(* sale counter counts that pair at most once.                             *)
(***************************************************************************)
C4_OneGrantPerPair ==
    \A u \in Users, i \in Images :
        /\ Cardinality(CompletedFor(u, i)) <= 1
        /\ images[i].total_sales <= Cardinality(Users)


(***************************************************************************)
(* C5: fulfilling a purchase never lowers the account's discount tier,     *)
(* whether the tier came from spend or from a subscription.                *)
(***************************************************************************)
C5_PurchaseStep ==
    \A h \in BagToSet(handlers), o \in OrderIds :
        CompleteOrderReturned(h, o) =>
            TierRank(users'[orders[o].user_id].vip_tier)
                >= TierRank(users[orders[o].user_id].vip_tier)

C5_PurchaseNeverLowersTier == [][C5_PurchaseStep]_vars

(***************************************************************************)
(* C6: in every state the account's tier is the higher of the tier its     *)
(* lifetime spend gives and the tier of its active, unexpired subscription.*)
(***************************************************************************)
MaxRank(S) == IF S = {} THEN 0 ELSE CHOOSE x \in S : \A y \in S : y <= x

SubscriptionRank(u) ==
    MaxRank({TierRank(subs[s].tier) : s \in {k \in SubIds : subs[k].user_id = u /\ ActiveUnexpired(k)}})

SpendRank(u) == TierRank(SpendTier(users[u].total_spent, "free"))

C6_TierIsHigherOfSpendAndSubscription ==
    \A u \in Users :
        TierRank(users[u].vip_tier) = MaxRank({SpendRank(u), SubscriptionRank(u)})

(***************************************************************************)
(* C7: activate_subscription never lowers the tier: when it activates a    *)
(* subscription the tier becomes the higher of the tier before and the     *)
(* subscription's tier, and a repeated call for an active one changes      *)
(* nothing.                                                                *)
(***************************************************************************)
\* this step is a return of activate_subscription(h.ref) for subscription s
ActivateSubscriptionReturned(h, s) ==
    /\ BagIn(h, handlers)
    /\ h.pc = "process"
    /\ FindOrder(h.ref) = 0
    /\ s = FindSub(h.ref)
    /\ handlers' = handlers (-) One(h)

C7_ActivationStep ==
    \A h \in BagToSet(handlers), s \in SubIds :
        ActivateSubscriptionReturned(h, s) =>
            LET u == subs[s].user_id IN
            IF subs[s].status = "active"
            THEN users'[u] = users[u]
            ELSE /\ subs'[s].status = "active"
                 /\ TierRank(users'[u].vip_tier)
                        = MaxRank({TierRank(users[u].vip_tier), TierRank(subs[s].tier)})
                 /\ users'[u].vip_tier \in {users[u].vip_tier, subs[s].tier}

C7_ActivationNeverLowersTier == [][C7_ActivationStep]_vars

\* a subscription of a lower tier than the account already had was activated
C7_Witness ==
    \E s \in SubIds :
        /\ subs[s].status = "active"
        /\ subs[s].activations = 1
        /\ TierRank(users[subs[s].user_id].vip_tier) > TierRank(subs[s].tier)
        /\ \A o \in OrderIds : credits[o] = 1 => delivered[o] = 1

NextPaid ==
    \/ PurchaseStep
    \/ ConfirmStep
    \/ \E u \in Users, t \in SubTierKeys : SubscribeCreate(u, t)
    \/ \E s \in subscribing : SubscribePaypalOk(s)
    \/ \E s \in subscribing : SubscribePaypalError(s)
SpecPaid == Init /\ [][NextPaid]_vars


(***************************************************************************)
(* C8: the loyalty-point balance of every account is never negative.       *)
(***************************************************************************)
C8_PointsNeverNegative == \A u \in Users : users[u].loyalty_points >= 0

\* redemptions have brought a balance down to exactly zero
C8_Witness ==
    \E u \in Users : users[u].loyalty_points = 0 /\ debited[u] > 0

(***************************************************************************)
(* C9: a redemption succeeds exactly when the balance is at least the      *)
(* reward's cost; with a smaller balance it leaves the balance, the        *)
(* free-unlock count and the redemption rows as they were.                 *)
(***************************************************************************)
\* redeem_reward_callback(u, r) taking the debit
RedeemSucceeds(u, r) ==
    /\ RedeemReward(u, r)
    /\ users'[u].loyalty_points = users[u].loyalty_points - REWARDS[r].points
    /\ Len(redemptions') = Len(redemptions) + 1

C9_SucceedsExactlyWhenAffordable ==
    \A u \in Users, r \in RewardKeys :
        (users[u].loyalty_points >= REWARDS[r].points) <=> ENABLED RedeemSucceeds(u, r)

C9_RejectedStep ==
    \A u \in Users, r \in RewardKeys :
        (RedeemReward(u, r) /\ users[u].loyalty_points < REWARDS[r].points) =>
            UNCHANGED <<users, redemptions, user_data>>

C9_RedeemExactlyWhenAffordable ==
    []C9_SucceedsExactlyWhenAffordable /\ [][C9_RejectedStep]_vars

\* 300 points, the 300-point reward redeemed: the balance is 0 and every further
\* redemption is rejected
C9_Witness ==
    \E u \in Users :
        /\ users[u].loyalty_points = 0
        /\ redemptions = <<[user_id |-> u, points_spent |-> 300, reward_type |-> "discount_10"]>>
        /\ \A r \in RewardKeys : ~ENABLED RedeemSucceeds(u, r)

(***************************************************************************)
(* C10: every successful redemption is one atomic step that debits the     *)
(* reward's cost, applies the reward's effect (a free-unlock token, the    *)
(* discount flag, or the image-unlock offer, with a token in its place     *)
(* when no image is eligible) and appends one row with points_spent equal  *)
(* to the cost; rows are never changed or removed, so the rows of an       *)
(* account sum to the points debited from it.                              *)
(***************************************************************************)
RowPoints == [k \in 1..Len(redemptions) |-> redemptions[k].points_spent]

RowsOf(u) == {k \in 1..Len(redemptions) : redemptions[k].user_id = u}

\* the effect of the reward r on the account u, applied in this step
EffectApplied(u, r) ==
    CASE REWARDS[r].type = "free_unlock" ->
            users'[u].free_unlocks = users[u].free_unlocks + 1
      [] REWARDS[r].type = "discount_10" -> user_data'[u].loyalty_discount = 10
      [] REWARDS[r].type = "discount_25" -> user_data'[u].loyalty_discount = 25
      [] REWARDS[r].type = "image_unlock" ->
            /\ user_data'[u].loyalty_unlock_tier = REWARDS[r].tier_limit
            /\ IF EligibleImages(REWARDS[r].tier_limit) # {}
               THEN EligibleImages(REWARDS[r].tier_limit) \subseteq offered'[u]
               ELSE users'[u].free_unlocks = users[u].free_unlocks + 1

C10_LedgerStep ==
    /\ Len(redemptions') \in {Len(redemptions), Len(redemptions) + 1}
    /\ SubSeq(redemptions', 1, Len(redemptions)) = redemptions
    /\ \A u \in Users :
        users'[u].loyalty_points < users[u].loyalty_points =>
            Len(redemptions') = Len(redemptions) + 1
    /\ Len(redemptions') = Len(redemptions) + 1 =>
            LET row == redemptions'[Len(redemptions')] IN
            /\ users'[row.user_id].loyalty_points
                    = users[row.user_id].loyalty_points - row.points_spent
            /\ \E r \in RewardKeys :
                    /\ REWARDS[r].points = row.points_spent
                    /\ REWARDS[r].type = row.reward_type
                    /\ EffectApplied(row.user_id, r)

C10_RowsSumToDebits ==
    \A u \in Users : SumOver(RowPoints, RowsOf(u)) = debited[u]

C10_RedemptionAtomic == []C10_RowsSumToDebits /\ [][C10_LedgerStep]_vars

(***************************************************************************)
(* C11: the amount of an order is the price resolved when it was created   *)
(* and never changes; a payment confirmation that fulfils the order adds   *)
(* exactly that amount to total_spent, floor(10 x amount) loyalty points,  *)
(* and 1 to the image's sale counter, whatever the price is by then.       *)
(***************************************************************************)
\* order o goes to completed in this step through complete_order
FulfilledByConfirmation(o) ==
    /\ orders[o].status # "completed"
    /\ orders'[o].status = "completed"
    /\ credits'[o] = credits[o] + 1

C11_Step ==
    /\ \A o \in OrderIds : orders'[o].amount = orders[o].amount
    /\ \A u \in Users, i \in Images :
        (Len(orders') = Len(orders) + 1 /\ orders'[Len(orders')].status = "pending"
            /\ orders'[Len(orders')].user_id = u /\ orders'[Len(orders')].image_id = i)
        => orders'[Len(orders')].amount = FinalPrice(u, i)
    /\ \A o \in OrderIds :
        FulfilledByConfirmation(o) =>
            LET u == orders[o].user_id
                i == orders[o].image_id IN
            /\ users'[u].total_spent = users[u].total_spent + orders[o].amount
            /\ users'[u].loyalty_points
                    = users[u].loyalty_points + (orders[o].amount * 10) \div 100
            /\ images'[i].total_sales = images[i].total_sales + 1

C11_CreditsAgreedPrice == [][C11_Step]_vars

\* both images were ordered at list price before any discount was earned and
\* both orders are fulfilled: the second was confirmed when the account's
\* tier, and so the price of the image, was no longer that of the order
C11_Witness ==
    /\ Len(orders) = 2
    /\ credits = <<1, 1>>
    /\ \A o \in OrderIds : orders[o].amount = images[orders[o].image_id].price
    /\ \E u \in Users :
        /\ users[u].total_spent = 3000 + 7999
        /\ users[u].loyalty_points = 300 + 799
        /\ UserDiscount(users[u].vip_tier) < 100

(***************************************************************************)
(* C12: complete_order is all-or-nothing.  An order that has a payment     *)
(* reference is completed if and only if it was credited; a call either    *)
(* writes the status, the spend, the points and the sale counter together  *)
(* or, when it fails, leaves orders, accounts and images as they were.     *)
(***************************************************************************)
\* handler h leaves complete_order in this step
CompleteOrderCalled(h) ==
    /\ BagIn(h, handlers)
    /\ h.pc = "process"
    /\ FindOrder(h.ref) # 0
    /\ CopiesIn(h, handlers') = CopiesIn(h, handlers) - 1

AllWritten(o) ==
    /\ orders'[o].status = "completed"
    /\ users'[orders[o].user_id].total_spent
            = users[orders[o].user_id].total_spent + orders[o].amount
    /\ users'[orders[o].user_id].loyalty_points
            = users[orders[o].user_id].loyalty_points + (orders[o].amount \div 10)
    /\ images'[orders[o].image_id].total_sales
            = images[orders[o].image_id].total_sales + 1

C12_Step ==
    \A h \in BagToSet(handlers) :
        CompleteOrderCalled(h) =>
            \/ AllWritten(FindOrder(h.ref))
            \/ UNCHANGED <<orders, users, images>>

C12_CompletedIffCredited ==
    /\ \A o \in OrderIds :
        orders[o].paypal_order_id # NoRef =>
            (orders[o].status = "completed" <=> credits[o] = 1)
    /\ \A i \in Images :
        images[i].total_sales = Cardinality({o \in OrderIds :
            orders[o].image_id = i /\ orders[o].status = "completed"})

C12_AllOrNothing == []C12_CompletedIffCredited /\ [][C12_Step]_vars

\* complete_order has failed for an order that is still pending and uncredited
C12_Witness ==
    \E h \in BagToSet(handlers) :
        /\ h.pc = "failed"
        /\ h.order_id # 0
        /\ orders[h.order_id].status = "pending"
        /\ credits[h.order_id] = 0
        /\ users[orders[h.order_id].user_id].total_spent = 0
        /\ images[orders[h.order_id].image_id].total_sales = 0

(***************************************************************************)
(* C13: a payment confirmation whose handling failed (the capture call     *)
(* raised, or complete_order failed) is not acknowledged as processed: its *)
(* answer makes the sender deliver the event again.                        *)
(***************************************************************************)
C13_FailureIsRetryable ==
    \A h \in BagToSet(handlers) :
        (h.pc = "failed" /\ FindOrder(h.ref) # 0) => Redelivers(ResponseStatus(h))

(***************************************************************************)
(* C14: over all confirmation requests for one payment reference, the      *)
(* confirmation path sends the content of an order at most once.           *)
(***************************************************************************)
C14_DeliveredOncePerOrder == \A o \in OrderIds : delivered[o] <= 1

(***************************************************************************)
(* C15: however often the confirmation of a subscription payment is        *)
(* delivered, and whatever happened to the subscription in between, the    *)
(* subscription is activated (price and points credited, 30-day period     *)
(* started) at most once.                                                  *)
(***************************************************************************)
C15_ActivatedAtMostOnce == \A s \in SubIds : subs[s].activations <= 1

(***************************************************************************)
(* C16: when purchase initiation returns, its order is either failed with  *)
(* no payment reference, or pending with the reference the provider        *)
(* returned; its amount is the price resolved when the row was inserted.   *)
(***************************************************************************)
\* buy_image_callback returns for order o in this step
InitiationReturns(o) == o \in buying /\ o \notin buying'

C16_Step ==
    /\ \A o \in OrderIds :
        InitiationReturns(o) =>
            /\ orders'[o].amount = orders[o].amount
            /\ \/ /\ orders'[o].status = "failed"
                  /\ orders'[o].paypal_order_id = NoRef
               \/ /\ orders'[o].status = "pending"
                  /\ orders'[o].paypal_order_id = nextRef
                  /\ orders'[o].paypal_order_id # NoRef
                  /\ nextRef' > nextRef
    /\ \A o \in buying' \ buying :
            /\ orders'[o].status = "pending"
            /\ orders'[o].paypal_order_id = NoRef
            /\ orders'[o].amount = FinalPrice(orders'[o].user_id, orders'[o].image_id)

\* after the return: failed orders have no reference, pending orders have one
\* that no other order has
C16_AfterReturn ==
    \A o \in OrderIds \ buying :
        /\ orders[o].status = "failed" => orders[o].paypal_order_id = NoRef
        /\ orders[o].status = "pending" =>
            /\ orders[o].paypal_order_id # NoRef
            /\ \A p \in OrderIds \ {o} :
                    orders[p].paypal_order_id # orders[o].paypal_order_id

C16_InitiationOutcome == []C16_AfterReturn /\ [][C16_Step]_vars

\* one initiation has returned failed and another pending with its reference
C16_Witness ==
    /\ buying = {}
    /\ \E o \in OrderIds :
        orders[o].status = "failed" /\ orders[o].paypal_order_id = NoRef
    /\ \E o \in OrderIds :
        /\ orders[o].status = "pending" /\ orders[o].paypal_order_id # NoRef
        /\ orders[o].amount = images[orders[o].image_id].price

(***************************************************************************)
(* C17: a due drip fires exactly once: at most one sweep picks it up, and  *)
(* once a sweep is through with it, sent is true, whatever the outcome of  *)
(* the sends, so that no later sweep sends it again.                       *)
(***************************************************************************)
\* the drip sweep is in the user loop of drip d
DripRunning(d) == dripJob.pc = "sending" /\ d = Min(dripJob.due)

C17_DripFiresOnce ==
    \A d \in DripIds :
        /\ dripLog[d].runs <= 1
        /\ (dripLog[d].runs = 1 /\ ~DripRunning(d)) => drips[d].sent

(***************************************************************************)
(* C18: a drip is sent to exactly the accounts that, when the sweep comes  *)
(* to them, are not banned and whose tier, the stored one or that of an    *)
(* active subscription, ranks at least the required tier.                  *)
(***************************************************************************)
\* the rank an account holds: its stored tier or an active subscription's
HeldRank(u) ==
    MaxRank({TierRank(users[u].vip_tier)} \cup
            {TierRank(subs[k].tier) : k \in {j \in SubIds :
                                        subs[j].user_id = u /\ ActiveUnexpired(j)}})

EligibleFor(u, d) ==
    ~users[u].is_banned /\ HeldRank(u) >= TierRank(drips[d].tier_required)

C18_Step ==
    /\ (dripJob'.pc = "sending" /\ dripJob' # dripJob) =>
            EligibleFor(dripJob'.cur, Min(dripJob'.due))
    /\ \A d \in DripIds :
        \A u \in dripLog'[d].skipped \ dripLog[d].skipped :
            ~users[u].is_banned /\ ~EligibleFor(u, d)

C18_Recipients ==
    \A d \in DripIds :
        /\ \A u \in dripLog[d].tried \cup dripLog[d].skipped : ~users[u].is_banned
        /\ drips[d].sent => dripLog[d].tried \cup dripLog[d].skipped = NotBanned

C18_DripEligibility == []C18_Recipients /\ [][C18_Step]_vars

\* the silver drip has fired in one run: the gold account and the account
\* with a subscription were sent it, the bronze account was skipped, the
\* banned account was not considered
C18_Witness ==
    /\ drips[1].sent
    /\ dripLog[1].runs = 1
    /\ dripLog[1].tried = {1, 2}
    /\ dripLog[1].skipped = {3}
    /\ users[4].is_banned /\ users[4].vip_tier = "gold"

(***************************************************************************)
(* C19: the items of a sweep are processed independently: when a run of    *)
(* the drip sweep ends, the due items other than one that failed have been *)
(* processed, and what was done for earlier items is kept.                 *)
(***************************************************************************)
C19_Step ==
    /\ (dripJob.pc = "sending" /\ dripJob'.pc = "idle") =>
            \A d \in dripJob.due \ {Min(dripJob.due)} : drips'[d].sent
    /\ \A d \in DripIds : drips[d].sent => drips'[d].sent

C19_ItemsIndependent == [][C19_Step]_vars

(***************************************************************************)
(* C20: a campaign is announced at most once: at most one sweep attempts   *)
(* its broadcast, while it is active and has started and not ended, to     *)
(* accounts that are not banned, and announced is true afterwards.         *)
(***************************************************************************)
SaleRunning(k) == saleJob.pc = "sending" /\ k = Min(saleJob.due)

C20_AnnouncedOnce ==
    \A k \in SaleIds :
        /\ saleLog[k].runs <= 1
        /\ \A u \in saleLog[k].tried : ~users[u].is_banned
        /\ SaleRunning(k) =>
            /\ sales[k].is_active
            /\ sales[k].starts_at <= saleJob.now /\ saleJob.now < sales[k].ends_at
        /\ (saleLog[k].runs = 1 /\ ~SaleRunning(k)) => sales[k].announcement_sent

(***************************************************************************)
(* C21: when a promotion sweep that began at time t returns normally,      *)
(* every sale whose end is <= t is inactive, and a sweep deactivates no    *)
(* sale whose end is > t.                                                  *)
(***************************************************************************)
\* the time the running, or starting, promotion sweep read
SaleSweepTime == IF saleJob.pc = "sending" THEN saleJob.now ELSE now

\* this step is the normal return of a promotion sweep
SaleSweepCompletes == sweeps'.sale_done = sweeps.sale_done + 1

C21_Step ==
    /\ SaleSweepCompletes =>
            \A k \in SaleIds : sales[k].ends_at <= SaleSweepTime => ~sales'[k].is_active
    /\ \A k \in SaleIds :
            (sales[k].is_active /\ ~sales'[k].is_active) =>
                (SaleSweepCompletes /\ sales[k].ends_at <= SaleSweepTime)

C21_EndedSalesDeactivated == [][C21_Step]_vars

\* a sweep has returned after the end of the first sale and before the end
\* of the second
C21_Witness ==
    /\ sweeps.sale_done >= 1
    /\ saleJob.pc = "idle"
    /\ sales[1].ends_at <= now /\ ~sales[1].is_active
    /\ sales[2].ends_at > now /\ sales[2].is_active

(***************************************************************************)
(* C22: the expiry sweep at time t marks every active subscription with    *)
(* expiry <= t expired; an account of such a subscription without another  *)
(* active subscription expiring after t gets the tier of its lifetime      *)
(* spend (>= $150 gold, >= $75 silver, >= $25 bronze, else free); every    *)
(* other account keeps its tier.                                           *)
(***************************************************************************)
\* this step is the expiry sweep
ExpirySweeps == \E s \in SubIds : Overdue(s) /\ subs'[s].status = "expired"

\* account u has an active subscription other than s that expires after now
KeepsAnother(u, s) ==
    \E k \in SubIds \ {s} :
        subs[k].user_id = u /\ subs[k].status = "active" /\ subs[k].expires_at > now

\* the tier of a lifetime spend, in cents
TierOfSpend(spent) ==
    IF spent >= 15000 THEN "gold"
    ELSE IF spent >= 7500 THEN "silver"
    ELSE IF spent >= 2500 THEN "bronze"
    ELSE "free"

\* the accounts the sweep resets
Lapsed == {subs[s].user_id : s \in {k \in SubIds : Overdue(k) /\ ~KeepsAnother(subs[k].user_id, k)}}

C22_Step ==
    ExpirySweeps =>
        /\ \A s \in SubIds :
                subs'[s] = IF Overdue(s) THEN [subs[s] EXCEPT !.status = "expired"]
                           ELSE subs[s]
        /\ \A u \in Lapsed :
                users'[u] = [users[u] EXCEPT !.vip_tier = TierOfSpend(users[u].total_spent)]
        /\ \A u \in DOMAIN users \ Lapsed : users'[u] = users[u]

C22_ExpirySweep == [][C22_Step]_vars

\* after a sweep: account 1 lost its bronze tier with its only subscription,
\* account 2 keeps gold on its second subscription although its spend makes
\* it silver
C22_Witness ==
    /\ subs[1].status = "expired" /\ users[1].vip_tier = "free"
    /\ subs[2].status = "expired" /\ subs[3].status = "active" /\ subs[3].expires_at > now
    /\ users[2].vip_tier = "gold" /\ TierOfSpend(users[2].total_spent) = "silver"

(***************************************************************************)
(* C23: the price of an item carries a promotional discount whenever some  *)
(* campaign is active, in its window, and global or scoped to the item's   *)
(* category; the base price stands only when there is no such campaign.    *)
(***************************************************************************)
\* this step creates an order
NewOrder == Len(orders') = Len(orders) + 1

\* the campaigns that apply to image i now
Applicable(i) ==
    {k \in DOMAIN sales :
        /\ sales[k].is_active
        /\ sales[k].starts_at <= now /\ now < sales[k].ends_at
        /\ sales[k].category_id \in {0, images[i].category_id}}

C23_Step ==
    NewOrder =>
        LET o == Len(orders')
            i == orders'[o].image_id
        IN  /\ Applicable(i) # {} => quotes'[o].on_sale
            /\ Applicable(i) = {} =>
                    (~quotes'[o].on_sale /\ quotes'[o].price = images[i].price)

C23_DiscountWhenApplicable == [][C23_Step]_vars

(***************************************************************************)
(* C24: the agreed price is rounded to cents after each of two stages:     *)
(* the promotional price is the base price less the campaign's percentage  *)
(* when a campaign was applied, else the base price; the price is the      *)
(* promotional price times 0.95 for bronze, 0.90 for silver, 0.80 for gold *)
(* and 1.0 otherwise.                                                      *)
(***************************************************************************)
\* n / d rounded to the nearest integer
Nearest(n, d) == (2 * n + d) \div (2 * d)

\* the tier multiplier, in percent
TierPercent(t) ==
    CASE t = "bronze" -> 95 [] t = "silver" -> 90 [] t = "gold" -> 80 [] OTHER -> 100

C24_Step ==
    NewOrder =>
        LET o == Len(orders')
            q == quotes'[o]
            base == images[orders'[o].image_id].price
            promo == IF q.on_sale THEN Nearest(base * (100 - q.discount_percent), 100)
                     ELSE base
        IN  /\ q.price = promo
            /\ orders'[o].amount =
                   Nearest(promo * TierPercent(users[orders'[o].user_id].vip_tier), 100)

C24_TwoRoundedStages == [][C24_Step]_vars

\* a silver account bought the $19.88 image at 30% off: $13.92, then $12.53,
\* where one rounding of 19.88 x 0.70 x 0.90 would give $12.52
C24_Witness ==
    \E o \in OrderIds :
        /\ images[orders[o].image_id].price = 1988
        /\ users[orders[o].user_id].vip_tier = "silver"
        /\ quotes[o] = [price |-> 1392, discount_percent |-> 30, on_sale |-> TRUE]
        /\ orders[o].amount = 1253
        /\ Nearest(1988 * 70 * 90, 10000) = 1252

(***************************************************************************)
(* C25: pricing is deterministic: in one state of the store, at one time,  *)
(* every evaluation for an item returns the same (price, discount percent, *)
(* on_sale), also when several campaigns are in their window.              *)
(***************************************************************************)
C25_PricingDeterministic ==
    \A i \in Images : Cardinality({GetFlashPrice(k, i) : k \in FirstFlashSale}) = 1

(***************************************************************************)
(* C26: when several campaigns are active and in their window, the one     *)
(* with the lowest row id is used.                                         *)
(***************************************************************************)
\* the active campaign with the lowest id, 0 if there is none
LowestActiveSale == IF ActiveFlashSales = {} THEN 0 ELSE Min(ActiveFlashSales)

C26_Step ==
    NewOrder =>
        quotes'[Len(orders')] = GetFlashPrice(LowestActiveSale, orders'[Len(orders')].image_id)

C26_LowestIdCampaign == [][C26_Step]_vars

(***************************************************************************)
(* C27: the price the preview shows for an item to an account equals the   *)
(* price agreed on the order that the account then creates for the item in *)
(* the same state of the store at the same time.                           *)
(***************************************************************************)
C27_Step ==
    NewOrder =>
        LET o == Len(orders') IN
            (/\ screen.kind = "preview"
             /\ screen.to = orders'[o].user_id
             /\ screen.image = orders'[o].image_id
             /\ screen.at = now)
            => orders'[o].amount = screen.price

C27_PreviewEqualsOrder == [][C27_Step]_vars

(***************************************************************************)
(* C28: an operation that refers to an absent row mutates nothing: no      *)
(* order is created for an unknown account or image, and a confirmation    *)
(* whose reference is that of no order and no subscription changes no      *)
(* order, account, subscription or image.                                  *)
(***************************************************************************)
\* no order and no subscription carries the reference
MatchesNothing(ref) ==
    /\ \A k \in OrderIds : orders[k].paypal_order_id # ref
    /\ \A k \in SubIds : subs[k].paypal_order_id # ref

\* this step works on a confirmation whose reference matches nothing
HandlesUnknown ==
    \E h \in BagToSet(handlers) :
        /\ MatchesNothing(h.ref)
        /\ CopiesIn(h, handlers') < CopiesIn(h, handlers)

\* this step replies that the image or the account does not exist
RepliesNotFound ==
    screen' # screen /\ screen'.kind \in {"image_not_found", "start_first"}

C28_Step ==
    /\ NewOrder =>
            /\ orders'[Len(orders')].user_id \in DOMAIN users
            /\ orders'[Len(orders')].image_id \in DOMAIN images
    /\ (RepliesNotFound \/ HandlesUnknown) => UNCHANGED <<users, images, orders, subs>>
    /\ \A r \in EventRefs :
            (MatchesNothing(r) /\ events' = events + 1) =>
                UNCHANGED <<users, images, orders, subs>>

C29_Step ==
    /\ \A op \in posting' \ posting :
            /\ images[op.image].content_type = "instagram"
            /\ op.content_type = "instagram"
    /\ \A x \in published' \ published :
            \E op \in posting : op.image = x.image /\ op.content_type = x.content_type
    /\ \A x \in published' : x.content_type = "instagram"

C29_NoPrivatePosted == [][C29_Step]_vars

\* a post that was scheduled for an active, non-explicit image was refused by
\* the guard after the image had moved to the private folder, a second post
\* of the same image had been published before, and the operator's immediate
\* post of it is refused as well
C29_Witness ==
    /\ \E p, q \in PostIds :
            /\ posts[p].status = "failed" /\ posts[p].error = "safety"
            /\ posts[q].status = "posted" /\ posts[q].image_id = posts[p].image_id
            /\ images[posts[p].image_id].content_type = "private"
            /\ images[posts[p].image_id].is_active
            /\ ~images[posts[p].image_id].is_explicit
            /\ screen.kind = "blocked" /\ screen.image = posts[p].image_id
    /\ published # {}

(***************************************************************************)
(* C30: a negative price is rejected before anything is stored: the upload *)
(* conversation never stores an image with a negative price, and so no     *)
(* order ever has a negative amount.                                       *)
(***************************************************************************)
C30_NoNegativePrice ==
    /\ \A i \in DOMAIN images : images[i].price >= 0
    /\ \A k \in OrderIds : orders[k].amount >= 0

(***************************************************************************)
(* C31: every row of flash_sales has an integer discount_percent between 1 *)
(* and 90 and an ends_at after its starts_at; an answer outside 1..90 to   *)
(* the discount question stores nothing.                                   *)
(***************************************************************************)
C31_Step ==
    /\ \A k \in 1..Len(sales') :
            /\ sales'[k].discount_percent \in 1..90
            /\ sales'[k].ends_at > sales'[k].starts_at
    /\ (screen' # screen /\ screen'.kind = "discount_1_to_90") =>
            UNCHANGED <<sales, sale_data>>

C31_CampaignsWellFormed == [][C31_Step]_vars

\* a campaign at 90% and one at 1% are stored, the second one day long, and
\* the last answer to the discount question was refused
C31_Witness ==
    /\ \E k, j \in SaleIds :
            /\ sales[k].discount_percent = 90
            /\ sales[j].discount_percent = 1
            /\ sales[j].ends_at = sales[j].starts_at + 1
    /\ screen.kind = "discount_1_to_90"

(***************************************************************************)
(* C32: the total_sales of an image equals the number of completed orders  *)
(* of that image in every state; it grows by one exactly in a step that    *)
(* makes one more order of the image completed, and never otherwise.       *)
(***************************************************************************)
\* the completed orders of image i in a table of orders
SoldOrders(tbl, i) ==
    {o \in 1..Len(tbl) : tbl[o].image_id = i /\ tbl[o].status = "completed"}

C32_Counted ==
    \A i \in DOMAIN images : images[i].total_sales = Cardinality(SoldOrders(orders, i))

C32_Step ==
    \A i \in DOMAIN images :
        /\ images'[i].total_sales \in {images[i].total_sales, images[i].total_sales + 1}
        /\ images'[i].total_sales = images[i].total_sales + 1
                <=> \E o \in SoldOrders(orders', i) :
                        SoldOrders(orders', i) = SoldOrders(orders, i) \cup {o}
                        /\ o \notin SoldOrders(orders, i)
        /\ images'[i].total_sales = images[i].total_sales
                <=> SoldOrders(orders', i) = SoldOrders(orders, i)

C32_SalesCounter == []C32_Counted /\ [][C32_Step]_vars

\* an image was sold twice: once paid through the provider, once unlocked at
\* price zero
C32_Witness ==
    \E i \in DOMAIN images, o, q \in OrderIds :
        /\ images[i].total_sales = 2
        /\ SoldOrders(orders, i) = {o, q}
        /\ orders[o].paypal_order_id # NoRef /\ orders[o].amount > 0
        /\ orders[q].paypal_order_id = NoRef /\ orders[q].amount = 0

(***************************************************************************)
(* C33: after a redemption of discount_10 or discount_25 the next order    *)
(* that purchase initiation creates for the account is priced that         *)
(* percentage below the price it would have had (to the cent), and the     *)
(* discount is used up by that order.                                      *)
(***************************************************************************)
C33_Step ==
    (NewOrder /\ orders'[Len(orders')].status = "pending") =>
        LET o == orders'[Len(orders')]
            d == user_data[o.user_id].loyalty_discount
            full == VipPrice(quotes'[Len(quotes')].price, users[o.user_id].vip_tier)
        IN  d > 0 =>
                /\ o.amount * 100 - full * (100 - d) \in -100..100
                /\ user_data'[o.user_id].loyalty_discount = 0

C33_DiscountOnNextPurchase == [][C33_Step]_vars

(***************************************************************************)
(* C34: every completed zero-price order that loyalty_pick_image_callback  *)
(* creates answers an earlier image_unlock redemption of the same account: *)
(* an account has at most as many of them as image_unlock redemptions, and *)
(* the tier of the image is within the tier limit of such a redemption     *)
(* (unlock_basic: basic; unlock_premium: basic or premium).                *)
(***************************************************************************)
\* the orders of account u that the pick operation created (the only source
\* of zero-price orders where no free unlock takes place)
PickedOrders(u) ==
    {o \in OrderIds : orders[o].user_id = u /\ orders[o].amount = 0
                      /\ orders[o].status = "completed"}

\* the image_unlock redemptions of account u
UnlockRedemptions(u) ==
    {r \in 1..Len(redemptions) :
        redemptions[r].user_id = u /\ redemptions[r].reward_type = "image_unlock"}

\* the tiers a redemption row allows, by the points of its reward
AllowedTiers(row) ==
    IF row.points_spent = REWARDS["unlock_premium"].points
    THEN {"basic", "premium"} ELSE {"basic"}

C34_PickNeedsRedemption ==
    \A u \in Users :
        /\ Cardinality(PickedOrders(u)) <= Cardinality(UnlockRedemptions(u))
        /\ \A o \in PickedOrders(u) :
                \E r \in UnlockRedemptions(u) :
                    images[orders[o].image_id].tier \in AllowedTiers(redemptions[r])

(***************************************************************************)
(* C35: free_unlock_callback never produces a completed order for an image *)
(* whose is_explicit is set, whether the preview showed the "Use Free      *)
(* Unlock" button or not.                                                  *)
(***************************************************************************)
\* this step is a free unlock that succeeded: a completed order at price zero
\* and one free unlock less
FreeUnlockStep ==
    /\ NewOrder
    /\ orders'[Len(orders')].status = "completed"
    /\ users'[orders'[Len(orders')].user_id].free_unlocks
            = users[orders'[Len(orders')].user_id].free_unlocks - 1

C35_Step == FreeUnlockStep => ~images[orders'[Len(orders')].image_id].is_explicit

C35_ExplicitNotFree == [][C35_Step]_vars

(***************************************************************************)
(* C36: users.free_unlocks is never negative.  A free unlock succeeds only *)
(* when the count is positive and the image's tier is free or basic; it    *)
(* takes exactly one from the count in the commit that stores the          *)
(* completed zero-price order; a refused free unlock changes nothing.      *)
(* The handler does not yield between reading the count and the commit, so *)
(* requests of the same account take their steps one after the other.      *)
(***************************************************************************)
C36_Step ==
    /\ \A u \in Users : users'[u].free_unlocks >= 0
    /\ FreeUnlockStep =>
            LET o == orders'[Len(orders')] IN
                /\ users[o.user_id].free_unlocks > 0
                /\ images[o.image_id].tier \in {"free", "basic"}
                /\ o.amount = 0
                /\ images'[o.image_id].total_sales = images[o.image_id].total_sales + 1
    /\ \A u \in Users :
            users'[u].free_unlocks < users[u].free_unlocks =>
                /\ FreeUnlockStep
                /\ orders'[Len(orders')].user_id = u

C36_FreeUnlocksNotNegative ==
    [](\A u \in Users : users[u].free_unlocks >= 0) /\ [][C36_Step]_vars

\* the account used its last free unlock on a basic image and a further
\* request found the count at zero
C36_Witness ==
    \E u \in Users, o \in OrderIds :
        /\ users[u].free_unlocks = 0
        /\ orders[o].user_id = u /\ orders[o].amount = 0 /\ orders[o].status = "completed"
        /\ images[orders[o].image_id].tier = "basic"
        /\ Len(orders) < MaxOrders

(***************************************************************************)
(* C37: a cancelled subscription grants its tier until its expiry only:    *)
(* after an expiry sweep that runs when a cancelled subscription's         *)
(* expires_at has passed, its account, if it has no active subscription    *)
(* that expires later, has the tier of its lifetime spend.                 *)
(***************************************************************************)
\* the accounts with a cancelled subscription whose time is over and without
\* an active subscription that runs on
CancelledOut ==
    {u \in DOMAIN users :
        /\ \E s \in SubIds : /\ subs[s].user_id = u /\ subs[s].status = "cancelled"
                             /\ subs[s].expires_at <= now
        /\ ~KeepsAnother(u, 0)}

C37_Step ==
    ExpirySweeps =>
        \A u \in CancelledOut : users'[u].vip_tier = TierOfSpend(users[u].total_spent)

C37_CancelledTierEnds == [][C37_Step]_vars

(***************************************************************************)
(* C38: with webhook verification configured, a webhook event changes an   *)
(* order, a subscription or an account only if its verification returned   *)
(* valid; an event whose verification returned invalid or raised changes   *)
(* nothing.                                                                *)
(***************************************************************************)
\* the verification of some event with this reference returned valid
Verified(ref) == [ref |-> ref, outcome |-> "valid"] \in verdicts

\* the requests that take their processing step now
Processed ==
    {h \in BagToSet(handlers) : h.pc = "process" /\ CopiesIn(h, handlers') < CopiesIn(h, handlers)}

C38_Step ==
    \A h \in Processed :
        Verified(h.ref) \/ UNCHANGED <<users, subs, images, orders>>

C38_OnlyVerifiedEvents == [][C38_Step]_vars

(***************************************************************************)
(* C39: an account is sent a given drip at most once over all drip sweeps, *)
(* also when a sweep aborts inside the drip's user loop, before sent is    *)
(* committed, and the next sweep picks the drip up again.                  *)
(***************************************************************************)
C39_SentAtMostOnce ==
    \A d \in DripIds : \A u \in DOMAIN users : CopiesIn(u, dripLog[d].got) <= 1

(***************************************************************************)
(* C40: a scheduled post is published at most once and its status only     *)
(* moves from pending to posted or from pending to failed, also when the   *)
(* sweep of scheduled posts and the dashboard's post-now handle the same   *)
(* pending post at the same time, interleaved at their awaits.             *)
(***************************************************************************)
\* the calls of post_to_instagram for a scheduled post that return in this step
Returning == {op \in posting \ posting' : op.post # 0}

C40_StatusMoves ==
    \A p \in PostIds :
        posts'[p].status # posts[p].status =>
            posts[p].status = "pending" /\ posts'[p].status \in {"posted", "failed"}

C40_PublishedOnce ==
    \A op \in Returning :
        posts'[op.post].status = "posted" => posts[op.post].status # "posted"

C40_Step == C40_StatusMoves /\ C40_PublishedOnce

C40_PostedAtMostOnce == [][C40_Step]_vars

====
